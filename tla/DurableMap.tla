----------------------------- MODULE DurableMap -----------------------------
(***************************************************************************)
(* What the state store promises the handlers: a map that survives         *)
(* restarts.  A successful write is seen by every later read, before and   *)
(* after a restart; a failed one may have taken effect or not, and closes  *)
(* the map until the next restart.                                         *)
(***************************************************************************)
CONSTANTS Keys, Values, None

VARIABLES
  saved,  \* what the next process will read
  view    \* what this process reads, or None while it serves no reads

vars == <<saved, view>>

(* Before the first start; an earlier release may have left something. *)
Init ==
  /\ saved \in [Keys -> Values \cup {None}]
  /\ view = None

(* Only k changes, to any value. *)
Written(k) ==
  /\ saved' \in [Keys -> Values \cup {None}]
  /\ saved'[k] # None
  /\ \A other \in Keys \ {k} : saved'[other] = saved[other]

Put(k) ==
  /\ view # None
  /\ Written(k)
  /\ view' = saved'

Fail(k) ==
  /\ view # None
  /\ Written(k) \/ UNCHANGED saved
  /\ view' = None

Stop ==
  /\ view' = None
  /\ UNCHANGED saved

Restart ==
  /\ view = None
  /\ view' = saved
  /\ UNCHANGED saved

Next == (\E k \in Keys : Put(k) \/ Fail(k)) \/ Stop \/ Restart

Spec == Init /\ [][Next]_vars
=============================================================================
