SPECIFICATION Spec
CONSTANTS
 s1=s1 s2=s2 p1=p1 p2=p2 t1=t1 r1=r1 x1=x1
 Starts={s1}
 Stops={}
 Toggles={}
 Restores={r1}
 Others={}
 Modes={"solar_surplus","smart_schedule_solar_surplus","scheduled","manual"}
 None=None
INVARIANTS ManualKeepsLease
CHECK_DEADLOCK FALSE
