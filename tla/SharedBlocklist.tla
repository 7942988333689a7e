--------------------------- MODULE SharedBlocklist ---------------------------
(***************************************************************************)
(* What the services that share one Redis promise their callers about the  *)
(* list of blocked addresses: one list, which changes at one instant       *)
(* between a call and its answer.  An answer that did not reach the list   *)
(* is "degraded", and is given only by a process without Redis or while    *)
(* Redis cannot be reached.  Nothing puts an address on the list but a     *)
(* call (a membership test may, a block does), or a starting process that  *)
(* re-adds an entry it had read from it.                                   *)
(***************************************************************************)
CONSTANTS
  Process,   \* service processes
  Request,   \* calls that can be outstanding at once
  Addr,      \* client addresses
  Trusted,   \* addresses of trusted proxies
  NoAddr     \* the operand of a call for the whole list

VARIABLES
  list,       \* the shared list
  adopting,   \* entries that starting processes read and have yet to write
  reachable,  \* Redis answers
  attached,   \* processes that work on the shared list
  call        \* the call outstanding in each slot

vars == <<list, adopting, reachable, attached, call>>

NoCall == [state |-> "none"]

Open(r) == call[r].state = "open"

Answer(r, state, answer) ==
  call' = [call EXCEPT ![r].state = state, ![r].answer = answer]

Init ==
  /\ list \in SUBSET Addr
  /\ adopting = {}
  /\ reachable = TRUE
  /\ attached = {}
  /\ call = [r \in Request |-> NoCall]

-----------------------------------------------------------------------------
(* A caller's steps *)

Begin(r, p, op, a) ==
  /\ call[r] = NoCall
  /\ op = "block" => a \notin Trusted
  /\ \E state \in IF p \in attached THEN {"open"} ELSE {"degraded"}, answer \in SUBSET Addr :
       call' = [call EXCEPT ![r] = [op |-> op, proc |-> p, addr |-> a,
                                    state |-> state, answer |-> answer]]
  /\ UNCHANGED <<list, adopting, reachable, attached>>

Apply(r) ==
  /\ Open(r)
  /\ reachable
  /\ \/ /\ call[r].op = "block"
        /\ list' = list \cup {call[r].addr}
        /\ Answer(r, "applied", {})
     \/ /\ call[r].op = "allow"
        /\ list' = list \ {call[r].addr}
        /\ Answer(r, "applied", {})
     \/ /\ call[r].op = "contains"
        /\ list' \in {list, list \cup {call[r].addr}}
        /\ Answer(r, "applied", list' \cap {call[r].addr})
     \/ /\ call[r].op = "list"
        /\ list' = list
        /\ Answer(r, "applied", list)
  /\ UNCHANGED <<adopting, reachable, attached>>

Degrade(r) ==
  /\ Open(r)
  /\ ~reachable
  /\ \E answer \in SUBSET Addr : Answer(r, "degraded", answer)
  /\ UNCHANGED <<list, adopting, reachable, attached>>

\* The answer is sent, or the caller gives up.
Close(r) ==
  /\ call' = [call EXCEPT ![r] = NoCall]
  /\ UNCHANGED <<list, adopting, reachable, attached>>

-----------------------------------------------------------------------------
(* The processes' and Redis's own steps *)

Crash(p) ==
  /\ call' = [r \in Request |-> IF call[r] # NoCall /\ call[r].proc = p
                                  THEN NoCall ELSE call[r]]
  /\ attached' = attached \ {p}
  /\ adopting' \in SUBSET adopting
  /\ UNCHANGED <<list, reachable>>

Startup(p) ==
  /\ \E back \in SUBSET adopting : list' = list \cup back
  /\ adopting' \in SUBSET (adopting \cup list)
  /\ attached' \in {attached, attached \cup {p}}
  /\ UNCHANGED <<reachable, call>>

Network ==
  /\ reachable' = ~reachable
  /\ UNCHANGED <<list, adopting, attached, call>>

Next ==
  \/ \E r \in Request :
       \/ \E p \in Process, a \in Addr, op \in {"block", "allow", "contains"} : Begin(r, p, op, a)
       \/ \E p \in Process : Begin(r, p, "list", NoAddr)
       \/ Apply(r) \/ Degrade(r) \/ Close(r)
  \/ \E p \in Process : Crash(p) \/ Startup(p)
  \/ Network

Spec == Init /\ [][Next]_vars
=============================================================================
