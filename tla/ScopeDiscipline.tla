---------------------------- MODULE ScopeDiscipline ----------------------------
(***************************************************************************)
(* What blocks and calls promise about the current scope.  Visits nest.  A  *)
(* block opens a fresh scope when its visit begins, a call when its         *)
(* arguments are known, and the scope that was current then is back when    *)
(* the visit ends; any other visit leaves the scope it found.               *)
(***************************************************************************)
EXTENDS Integers, Sequences

CONSTANTS
  Scopes,
  None  \* no scope

VARIABLES
  begun,   \* has the program begun, in its outermost scope?
  cur,     \* the current scope
  saved    \* for each visit under way, innermost first: the scope to go back
           \* to, or None while it has not opened one

vars == <<begun, cur, saved>>

InUse == {cur} \cup {saved[i] : i \in 1 .. Len(saved)}
Plain == saved # <<>> /\ Head(saved) = None

Init == begun = FALSE /\ cur \in Scopes /\ saved = <<>>

Begin ==
  /\ ~ begun /\ begun' = TRUE
  /\ cur' \in Scopes
  /\ UNCHANGED saved

Visit ==
  /\ begun
  /\ saved' = <<None>> \o saved
  /\ UNCHANGED <<begun, cur>>

Leave ==
  /\ Plain
  /\ saved' = Tail(saved)
  /\ UNCHANGED <<begun, cur>>

\* a block's visit begins, or a call's goes on
Open ==
  /\ begun
  /\ cur' \in Scopes \ InUse
  /\ \/ saved' = <<cur>> \o saved
     \/ Plain /\ saved' = <<cur>> \o Tail(saved)
  /\ UNCHANGED begun

Close ==
  /\ saved # <<>> /\ ~ Plain
  /\ cur' = Head(saved)
  /\ saved' = Tail(saved)
  /\ UNCHANGED begun

Next == Begin \/ Visit \/ Leave \/ Open \/ Close

Spec == Init /\ [][Next]_vars
=============================================================================
