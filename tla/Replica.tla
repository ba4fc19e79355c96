------------------------------ MODULE Replica ------------------------------
(***************************************************************************)
(* What a synchronisation promises: the copies follow the records at their *)
(* source, and a record that the source will not offer again has been      *)
(* copied as it is there.  There are two excuses: the record changed while *)
(* it was being copied, or what it refers to had not been copied yet.      *)
(***************************************************************************)
EXTENDS Naturals

CONSTANTS
  Records, \* the records of the source
  Ref,     \* a function: the record that some of them refer to
  Version  \* their versions, natural numbers: 0 for no record, or no copy

VARIABLES
  source,  \* the version of each record at the source
  copy,    \* the version that was copied
  settled, \* the records the source does not offer
  excused  \* of those, or of those to be, the ones that need not be copied

vars == <<source, copy, settled, excused>>

Init ==
  /\ source \in [Records -> Version]
  /\ copy = [r \in Records |-> 0]
  /\ settled = {r \in Records : source[r] = 0}
  /\ excused = {}

\* A change may come while the record is being copied, which excuses it.
Change(r) ==
  /\ \E v \in Version : v > source[r] /\ source' = [source EXCEPT ![r] = v]
  /\ settled' = settled \ {r}
  /\ excused' \in {excused \ {r}, excused \union {r}}
  /\ UNCHANGED copy

\* A copy never becomes older, and never newer than the source.
Copy ==
  /\ copy' \in [Records -> Version]
  /\ \A r \in Records :
       copy'[r] # copy[r] => copy[r] < copy'[r] /\ copy'[r] <= source[r] /\ r \notin settled
  /\ excused \intersect settled \subseteq excused'
  /\ \A r \in excused' \ excused : r \in DOMAIN Ref /\ copy[Ref[r]] = 0
  /\ UNCHANGED <<source, settled>>

Settle ==
  /\ settled \subseteq settled'
  /\ \A r \in settled' \ settled : copy[r] = source[r] \/ r \in excused
  /\ UNCHANGED <<source, copy, excused>>

Next == (\E r \in Records : Change(r)) \/ Copy \/ Settle

Spec == Init /\ [][Next]_vars
=============================================================================
