SPECIFICATION Spec
CONSTANTS
 s1=s1 s2=s2 p1=p1 p2=p2 t1=t1 r1=r1 x1=x1
 Starts={s1,s2}
 Stops={p1,p2}
 Toggles={}
 Restores={}
 Others={x1}
 Modes={"solar_surplus"}
 None=None
PROPERTIES ReplacementIsLeft
CHECK_DEADLOCK FALSE
