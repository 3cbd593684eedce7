---------------------------- MODULE PointStore ----------------------------
(***************************************************************************)
(* What the callers of the vector services rely on.  A call is answered;   *)
(* an "ok" means that it was carried out, once, between call and answer;   *)
(* after an "error" it was carried out or it was not.  Resumes and Jobs    *)
(* are written on top of this.                                             *)
(***************************************************************************)
CONSTANTS
    Requests,       \* who calls
    PointIds,       \* the ids of points
    Contents,       \* what points are computed from
    None            \* no point, no call, no answer

VARIABLES
    points,         \* the content of each point
    call,           \* the call each request waits for
    answer          \* the last answer each request got

vars == <<points, call, answer>>

\* A call to delete asks for the content None.
Call == [point : PointIds, content : Contents \cup {None},
         status : {"pending", "carried_out"}]

Init ==
    /\ points = [p \in PointIds |-> None]
    /\ call = [r \in Requests |-> None]
    /\ answer = [r \in Requests |-> None]

Ask(r) ==
    /\ call[r] = None
    /\ \E p \in PointIds, c \in Contents \cup {None} :
          call' = [call EXCEPT ![r] = [point |-> p, content |-> c, status |-> "pending"]]
    /\ answer' = [answer EXCEPT ![r] = None]
    /\ UNCHANGED points

CarryOut(r) ==
    /\ call[r] # None /\ call[r].status = "pending"
    /\ points' = [points EXCEPT ![call[r].point] = call[r].content]
    /\ call' = [call EXCEPT ![r].status = "carried_out"]
    /\ UNCHANGED answer

\* There is nothing to do for a delete of a point that is not there.
Succeed(r) ==
    /\ call[r] # None
    /\ \/ call[r].status = "carried_out"
       \/ call[r].content = None /\ points[call[r].point] = None
    /\ call' = [call EXCEPT ![r] = None]
    /\ answer' = [answer EXCEPT ![r] = "ok"]
    /\ UNCHANGED points

Fail(r) ==
    /\ call[r] # None
    /\ call' = [call EXCEPT ![r] = None]
    /\ answer' = [answer EXCEPT ![r] = "error"]
    /\ UNCHANGED points

\* The callers die, and nobody waits any more.
Restart ==
    /\ call' = [r \in Requests |-> None]
    /\ answer' = [r \in Requests |-> None]
    /\ UNCHANGED points

Next ==
    \/ \E r \in Requests : Ask(r) \/ CarryOut(r) \/ Succeed(r) \/ Fail(r)
    \/ Restart

Spec == Init /\ [][Next]_vars

\* Every call is answered.
FairSpec == Spec /\ \A r \in Requests : WF_vars(Succeed(r) \/ Fail(r))

=============================================================================
