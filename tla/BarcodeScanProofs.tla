------------------------- MODULE BarcodeScanProofs -------------------------
(***************************************************************************)
(* Proofs about BarcodeScan, for any number of users, any quantity ordered *)
(* and any number of scans, edits and failures.                            *)
(***************************************************************************)
EXTENDS BarcodeScan, FiniteSetTheorems, TLAPS

\* The types the proofs need; the bound on the quantities plays no part.
ScanType ==
  /\ quantity \in [Types -> Nat]
  /\ flag \in [Types -> BOOLEAN]
  /\ scan \in [Scanners -> Scan]
  /\ edits \in Nat

\* A scan that is going to set the fulfilled flag is one short of the quantity
\* ordered, or past it: others only add to it while it waits.
FlaggingIsEarned ==
  edits = 0 =>
    \A s \in Scanners :
      scan[s].pc = "update" /\ scan[s].type = "fulfill" /\ scan[s].flags
        => quantity["fulfill"] + 1 >= OrderQuantity

ScanInv == ScanType /\ FlaggingIsEarned /\ ScannedFlagIsEarned /\ FlagHasQuantity

-----------------------------------------------------------------------------
LEMMA BeginType ==
  ASSUME ScanType, NEW s \in Scanners, NEW t \in Types, NEW pc \in {"alert", "update"},
         Begin(s, t, pc)
  PROVE  scan' \in [Scanners -> Scan]
<1>1. Reaches(t) \in BOOLEAN
  <2>1. CASE t = "fulfill"
    BY <2>1 DEF Reaches
  <2>2. CASE t # "fulfill"
    BY <2>2 DEF Reaches
  <2> QED
    BY <2>1, <2>2
<1>2. [pc |-> pc, type |-> t, flags |-> Reaches(t)] \in Scan
  BY <1>1 DEF Scan
<1> QED
  BY <1>2 DEF Begin, ScanType

\* A scan that begins sets the flag only when it is one short.
LEMMA BeginInv ==
  ASSUME ScanInv, NEW s \in Scanners, NEW t \in Types, NEW pc \in {"alert", "update"},
         Begin(s, t, pc), UNCHANGED <<quantity, flag, edits>>
  PROVE  ScanInv'
<1>1. ScanType'
  BY BeginType DEF ScanInv, ScanType
<1>2. ScannedFlagIsEarned' /\ FlagHasQuantity'
  BY DEF ScanInv, ScannedFlagIsEarned, FlagHasQuantity
<1>3. FlaggingIsEarned'
  <2>1. SUFFICES ASSUME edits = 0, NEW r \in Scanners, scan'[r].pc = "update",
                        scan'[r].type = "fulfill", scan'[r].flags
                 PROVE  quantity["fulfill"] + 1 >= OrderQuantity
    BY DEF FlaggingIsEarned
  <2>2. CASE r # s
    <3>1. scan'[r] = scan[r]
      BY <2>2 DEF Begin, ScanInv, ScanType
    <3> QED
      BY <2>1, <3>1 DEF ScanInv, FlaggingIsEarned
  <2>3. CASE r = s
    <3>1. scan'[s] = [pc |-> pc, type |-> t, flags |-> Reaches(t)]
      BY DEF Begin, ScanInv, ScanType
    <3>2. t = "fulfill" /\ Reaches(t)
      BY <2>1, <2>3, <3>1
    <3> QED
      BY <3>2 DEF Reaches, Target
  <2> QED
    BY <2>2, <2>3
<1> QED
  BY <1>1, <1>2, <1>3 DEF ScanInv

\* A scan that ends without a write disturbs nothing.
LEMMA EndInv ==
  ASSUME ScanInv, NEW s \in Scanners, NEW pc \in {"idle", "answer"},
         scan' = [scan EXCEPT ![s].pc = pc], UNCHANGED <<quantity, flag, edits>>
  PROVE  ScanInv'
<1>1. ScanType'
  BY DEF ScanInv, ScanType, Scan
<1>2. ScannedFlagIsEarned' /\ FlagHasQuantity'
  BY DEF ScanInv, ScannedFlagIsEarned, FlagHasQuantity
<1>3. \A r \in Scanners : scan'[r].pc = "update" => scan'[r] = scan[r]
  BY DEF ScanInv, ScanType, Scan
<1>4. FlaggingIsEarned'
  BY <1>3 DEF ScanInv, FlaggingIsEarned
<1> QED
  BY <1>1, <1>2, <1>4 DEF ScanInv

LEMMA IncrementInv ==
  ASSUME ScanInv, NEW s \in Scanners, IncrementQuantity(s)
  PROVE  ScanInv'
<1> DEFINE t == scan[s].type
<1>0. /\ t \in Types /\ scan[s].flags \in BOOLEAN /\ quantity[t] \in Nat
      /\ quantity["fulfill"] \in Nat /\ quantity["receive"] \in Nat
      /\ flag[t] \in BOOLEAN /\ edits' = edits
  BY DEF ScanInv, ScanType, Scan, IncrementQuantity, Types
<1>1. /\ quantity' = [quantity EXCEPT ![t] = quantity[t] + 1]
      /\ flag' = [flag EXCEPT ![t] = flag[t] \/ scan[s].flags]
      /\ scan' = [scan EXCEPT ![s].pc = "answer"]
      /\ scan[s].pc = "update"
  BY DEF IncrementQuantity
<1>2. ScanType'
  <2>1. quantity' \in [Types -> Nat]
    BY <1>0, <1>1 DEF ScanInv, ScanType
  <2>2. flag' \in [Types -> BOOLEAN]
    BY <1>0, <1>1 DEF ScanInv, ScanType
  <2>3. scan' \in [Scanners -> Scan]
    BY <1>1 DEF ScanInv, ScanType, Scan
  <2> QED
    BY <1>0, <2>1, <2>2, <2>3 DEF ScanInv, ScanType
<1>3. \A u \in Types : quantity'[u] >= quantity[u] /\ quantity[u] \in Nat /\ quantity'[u] \in Nat
  BY <1>0, <1>1 DEF ScanInv, ScanType, Types
<1>4. quantity'[t] = quantity[t] + 1
  BY <1>0, <1>1 DEF ScanInv, ScanType
<1>5. \A u \in Types : flag'[u] => flag[u] \/ (u = t /\ scan[s].flags)
  BY <1>0, <1>1 DEF ScanInv, ScanType
<1>6. FlagHasQuantity'
  <2>1. ASSUME NEW u \in Types, flag'[u] PROVE quantity'[u] > 0
    <3>1. CASE flag[u]
      BY <1>3, <3>1 DEF ScanInv, FlagHasQuantity
    <3>2. CASE u = t
      BY <1>0, <1>4, <3>2
    <3> QED
      BY <1>5, <2>1, <3>1, <3>2
  <2> QED
    BY <2>1 DEF FlagHasQuantity
<1>7. ScannedFlagIsEarned'
  <2>1. SUFFICES ASSUME edits = 0, flag'["fulfill"]
                 PROVE  quantity'["fulfill"] >= OrderQuantity
    BY <1>0 DEF ScannedFlagIsEarned
  <2>2. CASE flag["fulfill"]
    BY <1>3, <2>1, <2>2, ScanAssumption DEF ScanInv, ScannedFlagIsEarned, Types
  <2>3. CASE t = "fulfill" /\ scan[s].flags
    BY <1>1, <1>4, <2>1, <2>3 DEF ScanInv, FlaggingIsEarned
  <2> QED
    BY <1>5, <2>1, <2>2, <2>3 DEF Types
<1>8. FlaggingIsEarned'
  <2>1. \A r \in Scanners : scan'[r].pc = "update" => scan'[r] = scan[r]
    BY <1>1 DEF ScanInv, ScanType, Scan
  <2>2. quantity'["fulfill"] >= quantity["fulfill"] /\ quantity'["fulfill"] \in Nat
    BY <1>3 DEF Types
  <2> QED
    BY <1>0, <2>1, <2>2, ScanAssumption DEF ScanInv, FlaggingIsEarned
<1> QED
  BY <1>2, <1>6, <1>7, <1>8 DEF ScanInv

LEMMA EditInv ==
  ASSUME ScanInv, NEW s \in Scanners, NEW t \in Types, NEW q \in 0 .. OrderQuantity,
         EditQuantity(s, t, q)
  PROVE  ScanInv'
<1>1. /\ quantity' = [quantity EXCEPT ![t] = q]
      /\ flag' = [flag EXCEPT ![t] = q > 0]
      /\ edits' = edits + 1 /\ scan' = scan
  BY DEF EditQuantity
<1>2. q \in Nat
  BY ScanAssumption
<1>3. (q > 0) \in BOOLEAN
  OBVIOUS
<1>4. ScanType'
  BY <1>1, <1>2, <1>3 DEF ScanInv, ScanType
<1>5. edits' # 0
  BY <1>1 DEF ScanInv, ScanType
<1>6. FlagHasQuantity'
  BY <1>1 DEF ScanInv, ScanType, FlagHasQuantity
<1> QED
  BY <1>4, <1>5, <1>6 DEF ScanInv, FlaggingIsEarned, ScannedFlagIsEarned

LEMMA ScanNext == ScanInv /\ [Next]_vars => ScanInv'
<1> SUFFICES ASSUME ScanInv, [Next]_vars PROVE ScanInv'
  OBVIOUS
<1>1. CASE UNCHANGED vars
  BY <1>1 DEF vars, ScanInv, ScanType, FlaggingIsEarned, ScannedFlagIsEarned, FlagHasQuantity
<1>2. ASSUME NEW s \in Scanners, NEW t \in Types, FindLineItem(s, t) PROVE ScanInv'
  BY <1>2, BeginInv DEF FindLineItem
<1>3. ASSUME NEW s \in Scanners, ForceScan(s) PROVE ScanInv'
  <2>1. scan[s].type \in Types
    BY DEF ScanInv, ScanType, Scan
  <2> QED
    BY <1>3, <2>1, BeginInv DEF ForceScan
<1>4. ASSUME NEW s \in Scanners, DismissAlert(s) \/ Answer(s) \/ ScanFails(s) PROVE ScanInv'
  BY <1>4, EndInv DEF DismissAlert, Answer, ScanFails
<1>5. ASSUME NEW s \in Scanners, IncrementQuantity(s) PROVE ScanInv'
  BY <1>5, IncrementInv
<1>6. ASSUME NEW s \in Scanners, NEW t \in Types, NEW q \in 0 .. OrderQuantity,
             EditQuantity(s, t, q)
      PROVE  ScanInv'
  BY <1>6, EditInv
<1> QED
  BY <1>1, <1>2, <1>3, <1>4, <1>5, <1>6 DEF Next

LEMMA ScanInvariant == Spec => []ScanInv
<1>1. Init => ScanInv
  BY DEF Init, ScanInv, ScanType, Scan, Types, FlaggingIsEarned, ScannedFlagIsEarned,
         FlagHasQuantity
<1> QED
  BY <1>1, ScanNext, PTL DEF Spec

\* However many scans of an item overlap, its fulfilled flag is never set before the
\* quantity ordered is in, as long as nobody edits it by hand.
THEOREM FlagIsNeverEarly == Spec => []ScannedFlagIsEarned
<1>1. ScanInv => ScannedFlagIsEarned
  BY DEF ScanInv
<1> QED
  BY <1>1, ScanInvariant, PTL

\* An item flagged as fulfilled or received has a positive quantity, however scans
\* and manual edits of it cross.
THEOREM FlaggedItemsHaveQuantity == Spec => []FlagHasQuantity
<1>1. ScanInv => FlagHasQuantity
  BY DEF ScanInv
<1> QED
  BY <1>1, ScanInvariant, PTL

-----------------------------------------------------------------------------
(* Counting the scans on their way *)

\* The users whose scan of a quantity of type t is at pc.
At(scans, pc, t) == {s \in Scanners : scans[s].pc = pc /\ scans[s].type = t}

LEMMA AtIsFinite ==
  ASSUME NEW scans, NEW pc, NEW t
  PROVE  IsFiniteSet(At(scans, pc, t)) /\ Cardinality(At(scans, pc, t)) \in Nat
  BY ScanAssumption, FS_Subset, FS_CardinalityType DEF At

\* A step of one user moves that user only.
OnlyMoves(s) == \A r \in Scanners \ {s} : scan'[r] = scan[r]
IsAt(scans, s, pc, t) == scans[s].pc = pc /\ scans[s].type = t

LEMMA AtCount ==
  ASSUME NEW s \in Scanners, OnlyMoves(s), NEW pc, NEW t
  PROVE  Cardinality(At(scan', pc, t)) =
           IF IsAt(scan', s, pc, t)
           THEN IF IsAt(scan, s, pc, t) THEN Cardinality(At(scan, pc, t))
                                        ELSE Cardinality(At(scan, pc, t)) + 1
           ELSE IF IsAt(scan, s, pc, t) THEN Cardinality(At(scan, pc, t)) - 1
                                        ELSE Cardinality(At(scan, pc, t))
<1> DEFINE A == At(scan, pc, t)
<1>1. IsFiniteSet(A)
  BY AtIsFinite
<1>2. Cardinality(A \union {s}) = IF s \in A THEN Cardinality(A) ELSE Cardinality(A) + 1
  BY <1>1, FS_AddElement
<1>3. Cardinality(A \ {s}) = IF s \in A THEN Cardinality(A) - 1 ELSE Cardinality(A)
  BY <1>1, FS_RemoveElement
<1>4. s \in A <=> IsAt(scan, s, pc, t)
  BY DEF At, IsAt
<1>5. At(scan', pc, t) = IF IsAt(scan', s, pc, t) THEN A \union {s} ELSE A \ {s}
  BY DEF At, IsAt, OnlyMoves
<1> HIDE DEF A
<1>6. QED
  BY <1>2, <1>3, <1>4, <1>5 DEF A

-----------------------------------------------------------------------------
(* Type correctness *)

\* TypeOK bounds the quantities, which needs the scans that are to be added to fit as
\* well.
RoomLeft == \A t \in Types : quantity[t] + Cardinality(At(scan, "update", t)) <= MaxQuantity

LEMMA TypeFollows == TypeOK => ScanType
  BY ScanAssumption DEF TypeOK, ScanType

\* Room counts the scans of both types.
LEMMA RoomIsThere ==
  ASSUME NEW q \in Nat, Room(q), NEW t \in Types
  PROVE  q + Cardinality(At(scan, "update", t)) < MaxQuantity
<1> DEFINE U == {s \in Scanners : scan[s].pc = "update"}
<1>1. IsFiniteSet(U) /\ Cardinality(U) \in Nat
  BY ScanAssumption, FS_Subset, FS_CardinalityType
<1>2. At(scan, "update", t) \in SUBSET U
  BY DEF At
<1>3. Cardinality(At(scan, "update", t)) <= Cardinality(U)
  BY <1>1, <1>2, FS_Subset
<1> QED
  BY <1>1, <1>3, AtIsFinite, ScanAssumption DEF Room

LEMMA BeginKeepsType ==
  ASSUME TypeOK, RoomLeft, NEW s \in Scanners, NEW t \in Types, NEW pc \in {"alert", "update"},
         scan[s].pc # "update", Room(quantity[t]), Begin(s, t, pc),
         UNCHANGED <<quantity, flag, reported, lost, edits>>
  PROVE  TypeOK' /\ RoomLeft'
<1> DEFINE x == [pc |-> pc, type |-> t, flags |-> Reaches(t)]
<1>1. TypeOK'
  BY BeginType, TypeFollows DEF TypeOK, Begin
<1>2. ASSUME NEW u \in Types
      PROVE  quantity'[u] + Cardinality(At(scan', "update", u)) <= MaxQuantity
  <2>1. OnlyMoves(s) /\ scan'[s] = x /\ ~IsAt(scan, s, "update", u)
    BY DEF TypeOK, Begin, OnlyMoves, IsAt
  <2>2. /\ quantity[u] \in Nat /\ quantity[t] \in Nat
        /\ quantity[u] + Cardinality(At(scan, "update", u)) <= MaxQuantity
    BY DEF TypeOK, RoomLeft
  <2>3. CASE pc = "update" /\ u = t
    <3>1. Cardinality(At(scan', "update", t)) = Cardinality(At(scan, "update", t)) + 1
      BY <2>1, <2>3, AtCount DEF IsAt
    <3>2. quantity[t] + Cardinality(At(scan, "update", t)) < MaxQuantity
      BY <2>2, RoomIsThere
    <3> QED
      BY <2>2, <2>3, <3>1, <3>2, AtIsFinite, ScanAssumption
  <2>4. CASE ~(pc = "update" /\ u = t)
    <3>1. Cardinality(At(scan', "update", u)) = Cardinality(At(scan, "update", u))
      BY <2>1, <2>4, AtCount DEF IsAt
    <3> QED
      BY <2>2, <3>1
  <2> QED
    BY <2>3, <2>4
<1> QED
  BY <1>1, <1>2 DEF RoomLeft

\* A scan that goes on or ends makes room, unless it has just been counted.
LEMMA EndMakesRoom ==
  ASSUME NEW s \in Scanners, OnlyMoves(s), scan'[s].pc # "update", NEW t
  PROVE  Cardinality(At(scan', "update", t)) =
           IF IsAt(scan, s, "update", t) THEN Cardinality(At(scan, "update", t)) - 1
                                         ELSE Cardinality(At(scan, "update", t))
  BY AtCount DEF IsAt

LEMMA PcMoves ==
  ASSUME scan \in [Scanners -> Scan], NEW s \in Scanners, NEW pc \in {"idle", "answer"},
         scan' = [scan EXCEPT ![s].pc = pc]
  PROVE  /\ OnlyMoves(s) /\ scan'[s].pc = pc /\ scan'[s].type = scan[s].type
         /\ scan' \in [Scanners -> Scan]
  BY DEF Scan, OnlyMoves

LEMMA IncrementKeepsType ==
  ASSUME TypeOK, RoomLeft, NEW s \in Scanners, IncrementQuantity(s)
  PROVE  TypeOK' /\ RoomLeft'
<1> DEFINE t == scan[s].type
<1>1. /\ t \in Types /\ scan[s].pc = "update" /\ scan[s].flags \in BOOLEAN
      /\ quantity' = [quantity EXCEPT ![t] = @ + 1]
      /\ flag' = [flag EXCEPT ![t] = @ \/ scan[s].flags]
      /\ scan' = [scan EXCEPT ![s].pc = "answer"]
      /\ UNCHANGED <<reported, lost, edits, raced>>
  BY DEF TypeOK, Scan, IncrementQuantity
<1>2. /\ scan' \in [Scanners -> Scan] /\ OnlyMoves(s) /\ scan'[s].pc = "answer"
      /\ IsAt(scan, s, "update", t) /\ \A u \in Types \ {t} : ~IsAt(scan, s, "update", u)
  <2>1. scan \in [Scanners -> Scan]
    BY DEF TypeOK
  <2> QED
    BY <1>1, <2>1, PcMoves DEF IsAt
<1>3. \A u \in Types : /\ quantity[u] \in Nat
                       /\ quantity'[u] = IF u = t THEN quantity[u] + 1 ELSE quantity[u]
  BY <1>1 DEF TypeOK
<1>4. RoomLeft'
  <2>1. \A u \in Types : Cardinality(At(scan', "update", u)) =
          IF u = t THEN Cardinality(At(scan, "update", u)) - 1
                   ELSE Cardinality(At(scan, "update", u))
    BY <1>2, EndMakesRoom
  <2> QED
    BY <1>3, <2>1, AtIsFinite, ScanAssumption DEF RoomLeft
<1>5. \A u \in Types : quantity'[u] \in 0 .. MaxQuantity
  <2>1. s \in At(scan, "update", t)
    BY <1>1 DEF At
  <2>2. Cardinality(At(scan, "update", t)) # 0
    BY <2>1, AtIsFinite, FS_EmptySet
  <2> QED
    BY <1>1, <1>3, <2>2, AtIsFinite, ScanAssumption DEF RoomLeft, TypeOK
<1>6. quantity' \in [Types -> 0 .. MaxQuantity]
  BY <1>1, <1>5 DEF TypeOK
<1>7. flag' \in [Types -> BOOLEAN]
  <2>1. (flag[t] \/ scan[s].flags) \in BOOLEAN
    OBVIOUS
  <2> QED
    BY <1>1, <2>1 DEF TypeOK
<1> QED
  BY <1>1, <1>2, <1>4, <1>6, <1>7 DEF TypeOK

LEMMA TypeNext == TypeOK /\ RoomLeft /\ [Next]_vars => TypeOK' /\ RoomLeft'
<1> SUFFICES ASSUME TypeOK, RoomLeft, [Next]_vars PROVE TypeOK' /\ RoomLeft'
  OBVIOUS
<1>1. CASE UNCHANGED vars
  BY <1>1 DEF vars, TypeOK, RoomLeft, At
<1>2. ASSUME NEW s \in Scanners, NEW t \in Types, FindLineItem(s, t) PROVE TypeOK' /\ RoomLeft'
  BY <1>2, BeginKeepsType DEF FindLineItem
<1>3. ASSUME NEW s \in Scanners, ForceScan(s) PROVE TypeOK' /\ RoomLeft'
  <2>1. scan[s].type \in Types
    BY DEF TypeOK, Scan
  <2> QED
    BY <1>3, <2>1, BeginKeepsType DEF ForceScan
<1>4. ASSUME NEW s \in Scanners, DismissAlert(s) \/ Answer(s) \/ ScanFails(s)
      PROVE  TypeOK' /\ RoomLeft'
  <2>1. scan' = [scan EXCEPT ![s].pc = "idle"] /\ UNCHANGED <<quantity, flag, edits, raced>>
    BY <1>4 DEF DismissAlert, Answer, ScanFails
  <2>2. scan[s].type \in Types
    BY DEF TypeOK, Scan
  <2>3. reported' \in [Types -> Nat]
    BY <1>4, <2>2 DEF DismissAlert, Answer, ScanFails, TypeOK
  <2>4. lost' \in [Types -> 0 .. MaxFaults]
    <3>1. CASE UNCHANGED lost
      BY <3>1 DEF TypeOK
    <3>2. CASE lost' = [lost EXCEPT ![scan[s].type] = @ + 1]
               /\ lost["fulfill"] + lost["receive"] < MaxFaults
      <4>1. \A t \in Types : lost[t] \in Nat
        BY ScanAssumption DEF TypeOK
      <4>2. lost[scan[s].type] + 1 \in 0 .. MaxFaults
        BY <2>2, <3>2, <4>1, ScanAssumption DEF Types
      <4> QED
        BY <3>2, <4>2 DEF TypeOK
    <3> QED
      BY <1>4, <3>1, <3>2 DEF DismissAlert, Answer, ScanFails
  <2>0. scan' \in [Scanners -> Scan] /\ OnlyMoves(s) /\ scan'[s].pc # "update"
    BY <2>1, PcMoves DEF TypeOK
  <2>5. \A t \in Types : Cardinality(At(scan', "update", t)) <= Cardinality(At(scan, "update", t))
    BY <2>0, EndMakesRoom, AtIsFinite
  <2>6. RoomLeft'
    <3>1. ASSUME NEW t \in Types
          PROVE  quantity'[t] + Cardinality(At(scan', "update", t)) <= MaxQuantity
      <4>1. /\ quantity[t] \in Nat /\ quantity'[t] = quantity[t]
            /\ quantity[t] + Cardinality(At(scan, "update", t)) <= MaxQuantity
        BY <2>1 DEF RoomLeft, TypeOK
      <4>2. /\ Cardinality(At(scan, "update", t)) \in Nat
            /\ Cardinality(At(scan', "update", t)) \in Nat
        BY AtIsFinite
      <4> QED
        BY <2>5, <4>1, <4>2, ScanAssumption
    <3> QED
      BY <3>1 DEF RoomLeft
  <2> QED
    BY <2>0, <2>1, <2>3, <2>4, <2>6 DEF TypeOK
<1>5. ASSUME NEW s \in Scanners, IncrementQuantity(s) PROVE TypeOK' /\ RoomLeft'
  BY <1>5, IncrementKeepsType
<1>6. ASSUME NEW s \in Scanners, NEW t \in Types, NEW q \in 0 .. OrderQuantity,
             EditQuantity(s, t, q)
      PROVE  TypeOK' /\ RoomLeft'
  <2>1. /\ quantity' = [quantity EXCEPT ![t] = q] /\ flag' = [flag EXCEPT ![t] = q > 0]
        /\ edits' = edits + 1 /\ edits < MaxEdits /\ Room(q)
        /\ UNCHANGED <<scan, reported, lost, raced>>
    BY <1>6 DEF EditQuantity
  <2>2. q \in Nat /\ (q > 0) \in BOOLEAN
    BY ScanAssumption
  <2>3. q + Cardinality(At(scan, "update", t)) < MaxQuantity
    BY <2>1, <2>2, RoomIsThere
  <2>4. TypeOK'
    BY <2>1, <2>2, <2>3, AtIsFinite, ScanAssumption DEF TypeOK
  <2>5. \A u : At(scan', "update", u) = At(scan, "update", u)
    BY <2>1 DEF At
  <2>6. RoomLeft'
    BY <2>1, <2>2, <2>3, <2>5, AtIsFinite, ScanAssumption DEF RoomLeft, TypeOK
  <2> QED
    BY <2>4, <2>6
<1> QED
  BY <1>1, <1>2, <1>3, <1>4, <1>5, <1>6 DEF Next

\* Every variable of BarcodeScan keeps its type; in particular no quantity passes the
\* bound, because a scan begins only when there is room for it and for all those that
\* are to be added.
THEOREM ScanTypeCorrect == Spec => []TypeOK
<1>1. Init => TypeOK /\ RoomLeft
  <2>1. Init => \A t : At(scan, "update", t) = {}
    BY DEF Init, At
  <2>2. Init => RoomLeft
    <3> SUFFICES ASSUME Init, NEW t \in Types
                 PROVE  quantity[t] + Cardinality(At(scan, "update", t)) <= MaxQuantity
      BY DEF RoomLeft
    <3>1. quantity[t] = 0 /\ Cardinality(At(scan, "update", t)) = 0
      BY <2>1, FS_EmptySet DEF Init
    <3> QED
      BY <3>1, ScanAssumption
  <2>3. Init => TypeOK
    <3> SUFFICES ASSUME Init PROVE TypeOK
      OBVIOUS
    <3>1. 0 \in 0 .. MaxQuantity /\ 0 \in 0 .. MaxFaults /\ 0 \in 0 .. MaxEdits
      BY ScanAssumption
    <3>2. scan \in [Scanners -> Scan]
      BY DEF Init, Scan, Types
    <3> QED
      BY <3>1, <3>2 DEF Init, TypeOK
  <2> QED
    BY <2>2, <2>3
<1> QED
  BY <1>1, TypeNext, PTL DEF Spec

-----------------------------------------------------------------------------
(* No scan is lost *)

LEMMA AnsweringIsAt ==
  NoScanIsLost <=>
    (edits = 0 => \A t \in Types :
       quantity[t] = reported[t] + lost[t] + Cardinality(At(scan, "answer", t)))
  BY DEF NoScanIsLost, At

\* A scan that is neither counted nor answered by a step changes no count.
LEMMA CountsStay ==
  ASSUME NoScanIsLost, NEW s \in Scanners, OnlyMoves(s), scan[s].pc # "answer",
         scan'[s].pc # "answer", UNCHANGED <<quantity, reported, lost, edits>>
  PROVE  NoScanIsLost'
<1>1. \A t : Cardinality(At(scan', "answer", t)) = Cardinality(At(scan, "answer", t))
  BY AtCount DEF IsAt
<1>2. \A t : {r \in Scanners : scan'[r].pc = "answer" /\ scan'[r].type = t} = At(scan', "answer", t)
  BY DEF At
<1> QED
  BY <1>1, <1>2, AnsweringIsAt DEF NoScanIsLost

LEMMA LostNext == TypeOK /\ NoScanIsLost /\ [Next]_vars => NoScanIsLost'
<1> SUFFICES ASSUME TypeOK, NoScanIsLost, [Next]_vars PROVE NoScanIsLost'
  OBVIOUS
<1> USE DEF Types
<1>0. \A t : {r \in Scanners : scan'[r].pc = "answer" /\ scan'[r].type = t} = At(scan', "answer", t)
  BY DEF At
<1>1. CASE UNCHANGED vars
  BY <1>1 DEF vars, NoScanIsLost
<1>2. ASSUME NEW s \in Scanners, NEW t \in Types, FindLineItem(s, t) PROVE NoScanIsLost'
  BY <1>2, CountsStay DEF FindLineItem, Begin, OnlyMoves, TypeOK
<1>3. ASSUME NEW s \in Scanners, ForceScan(s) PROVE NoScanIsLost'
  BY <1>3, CountsStay DEF ForceScan, Begin, OnlyMoves, TypeOK
<1>4. ASSUME NEW s \in Scanners, DismissAlert(s) PROVE NoScanIsLost'
  BY <1>4, CountsStay, PcMoves DEF DismissAlert, TypeOK
<1>5. ASSUME NEW s \in Scanners, IncrementQuantity(s) PROVE NoScanIsLost'
  <2> DEFINE t == scan[s].type
  <2>1. /\ OnlyMoves(s) /\ scan[s].pc = "update" /\ scan'[s].pc = "answer" /\ scan'[s].type = t
        /\ quantity' = [quantity EXCEPT ![t] = @ + 1] /\ t \in Types
        /\ UNCHANGED <<reported, lost, edits>>
    BY <1>5, PcMoves DEF IncrementQuantity, TypeOK, Scan
  <2>2. \A u \in Types : Cardinality(At(scan', "answer", u)) =
          IF u = t THEN Cardinality(At(scan, "answer", u)) + 1 ELSE Cardinality(At(scan, "answer", u))
    BY <2>1, AtCount DEF IsAt
  <2>3. \A u \in Types : /\ quantity[u] \in Nat /\ reported[u] \in Nat /\ lost[u] \in Nat
                         /\ quantity'[u] = IF u = t THEN quantity[u] + 1 ELSE quantity[u]
    BY <2>1 DEF TypeOK
  <2> QED
    <3>1. \A u \in Types : /\ Cardinality(At(scan, "answer", u)) \in Nat
                           /\ Cardinality(At(scan', "answer", u)) \in Nat
      BY AtIsFinite
    <3>2. ASSUME edits = 0, NEW u \in Types
          PROVE  quantity'[u] = reported'[u] + lost'[u] + Cardinality(At(scan', "answer", u))
      <4>1. quantity[u] = reported[u] + lost[u] + Cardinality(At(scan, "answer", u))
        BY <3>2, AnsweringIsAt
      <4> HIDE DEF t
      <4> QED
        BY <2>1, <2>2, <2>3, <3>1, <4>1
    <3> QED
      BY <1>0, <2>1, <3>2 DEF NoScanIsLost
<1>6. ASSUME NEW s \in Scanners, Answer(s) \/ (ScanFails(s) /\ scan[s].pc = "answer")
      PROVE  NoScanIsLost'
  <2> DEFINE t == scan[s].type
  <2>1. /\ OnlyMoves(s) /\ scan[s].pc = "answer" /\ scan'[s].pc = "idle" /\ t \in Types
        /\ UNCHANGED <<quantity, edits>>
        /\ \/ reported' = [reported EXCEPT ![t] = @ + 1] /\ UNCHANGED lost
           \/ lost' = [lost EXCEPT ![t] = @ + 1] /\ UNCHANGED reported
    BY <1>6, PcMoves DEF Answer, ScanFails, TypeOK, Scan
  <2>2. \A u \in Types : Cardinality(At(scan', "answer", u)) =
          IF u = t THEN Cardinality(At(scan, "answer", u)) - 1 ELSE Cardinality(At(scan, "answer", u))
    BY <2>1, AtCount DEF IsAt
  <2>3. \A u \in Types : /\ quantity[u] \in Nat /\ reported[u] \in Nat /\ lost[u] \in Nat
                         /\ reported'[u] + lost'[u] =
                              IF u = t THEN reported[u] + lost[u] + 1 ELSE reported[u] + lost[u]
                         /\ reported'[u] \in Nat /\ lost'[u] \in Nat
    BY <2>1 DEF TypeOK
  <2> QED
    <3>1. \A u \in Types : /\ Cardinality(At(scan, "answer", u)) \in Nat
                           /\ Cardinality(At(scan', "answer", u)) \in Nat
      BY AtIsFinite
    <3>2. ASSUME edits = 0, NEW u \in Types
          PROVE  quantity'[u] = reported'[u] + lost'[u] + Cardinality(At(scan', "answer", u))
      <4>1. quantity[u] = reported[u] + lost[u] + Cardinality(At(scan, "answer", u))
        BY <3>2, AnsweringIsAt
      <4> HIDE DEF t
      <4> QED
        BY <2>1, <2>2, <2>3, <3>1, <4>1
    <3> QED
      BY <1>0, <2>1, <3>2 DEF NoScanIsLost
<1>7. ASSUME NEW s \in Scanners, ScanFails(s), scan[s].pc = "update" PROVE NoScanIsLost'
  BY <1>7, CountsStay, PcMoves DEF ScanFails, TypeOK
<1>8. ASSUME NEW s \in Scanners, NEW t \in Types, NEW q \in 0 .. OrderQuantity,
             EditQuantity(s, t, q)
      PROVE  NoScanIsLost'
  BY <1>8 DEF EditQuantity, NoScanIsLost, TypeOK
<1>9. ASSUME NEW s \in Scanners, ScanFails(s) PROVE NoScanIsLost'
  BY <1>6, <1>7, <1>9 DEF ScanFails
<1> QED
  BY <1>1, <1>2, <1>3, <1>4, <1>5, <1>6, <1>8, <1>9 DEF Next

\* Every scan that reached the database is counted once, however many users scan at
\* once and whatever answers are lost: the quantity is the sum of the scans reported,
\* of those reported as failed and of those still to be answered.
THEOREM ScansAreCounted == Spec => []NoScanIsLost
<1>1. Init => NoScanIsLost
  <2>1. Init => \A t : At(scan, "answer", t) = {}
    BY DEF Init, At
  <2> QED
    <3>1. ASSUME Init, NEW t \in Types
          PROVE  quantity[t] = reported[t] + lost[t] + Cardinality(At(scan, "answer", t))
      <4>1. Cardinality(At(scan, "answer", t)) = 0
        BY <2>1, <3>1, FS_EmptySet
      <4> QED
        BY <3>1, <4>1 DEF Init
    <3> QED
      BY <3>1, AnsweringIsAt
<1> QED
  BY <1>1, LostNext, ScanTypeCorrect, PTL DEF Spec

-----------------------------------------------------------------------------
(* Scans one after the other *)

\* As long as no two scans overlapped, one at most is on its way.
OneIsBusy == ~raced => \A s, r \in Scanners : Busy(s) /\ Busy(r) => s = r

\* The scan that is about to bring the quantity ordered will set the flag: nothing was
\* counted since it read the quantity.
WillFlag ==
  edits = 0 /\ ~raced =>
    \A s \in Scanners :
      /\ scan[s].pc = "update" /\ scan[s].type = "fulfill"
      /\ quantity["fulfill"] + 1 >= OrderQuantity
      => scan[s].flags

Sequential == OneIsBusy /\ WillFlag /\ SequentialScansFlag

LEMMA BeginIsSequential ==
  ASSUME TypeOK, Sequential, NEW s \in Scanners, NEW t \in Types, NEW pc \in {"alert", "update"},
         Begin(s, t, pc), UNCHANGED <<quantity, flag, edits>>
  PROVE  Sequential'
<1>1. /\ \A r \in Scanners \ {s} : scan'[r] = scan[r]
      /\ scan'[s] = [pc |-> pc, type |-> t, flags |-> Reaches(t)]
      /\ raced' = (raced \/ (pc = "update" /\ \E o \in Scanners \ {s} : Busy(o)))
  BY DEF Begin, TypeOK
<1>2. SequentialScansFlag'
  BY <1>1 DEF Sequential, SequentialScansFlag
<1>3. OneIsBusy'
  <2>1. SUFFICES ASSUME ~raced', NEW r \in Scanners, NEW o \in Scanners, Busy(r)', Busy(o)', r # o
                 PROVE  FALSE
    BY DEF OneIsBusy, Busy
  <2>2. ~raced /\ (pc = "update" => \A u \in Scanners \ {s} : ~Busy(u))
    BY <1>1, <2>1
  <2>3. \A u \in Scanners \ {s} : Busy(u)' => Busy(u)
    BY <1>1 DEF Busy
  <2>4. Busy(s)' => pc = "update"
    BY <1>1 DEF Busy
  <2> QED
    BY <2>1, <2>2, <2>3, <2>4 DEF Sequential, OneIsBusy
<1>4. WillFlag'
  <2>1. SUFFICES ASSUME edits = 0, ~raced', NEW r \in Scanners, scan'[r].pc = "update",
                        scan'[r].type = "fulfill", quantity["fulfill"] + 1 >= OrderQuantity
                 PROVE  scan'[r].flags
    BY DEF WillFlag
  <2>2. ~raced
    BY <1>1, <2>1
  <2>3. CASE r # s
    BY <1>1, <2>1, <2>2, <2>3 DEF Sequential, WillFlag
  <2>4. CASE r = s
    <3>1. t = "fulfill" /\ scan'[s].flags = Reaches(t)
      BY <1>1, <2>1, <2>4
    <3>2. Reaches(t)
      BY <2>1, <3>1 DEF Reaches, Target
    <3> QED
      BY <2>4, <3>1, <3>2
  <2> QED
    BY <2>3, <2>4
<1> QED
  BY <1>2, <1>3, <1>4 DEF Sequential

LEMMA EndIsSequential ==
  ASSUME TypeOK, Sequential, NEW s \in Scanners,
         DismissAlert(s) \/ Answer(s) \/ ScanFails(s)
  PROVE  Sequential'
<1>1. /\ OnlyMoves(s) /\ scan'[s].pc = "idle" /\ UNCHANGED <<quantity, flag, edits, raced>>
  BY PcMoves DEF DismissAlert, Answer, ScanFails, TypeOK
<1> QED
  BY <1>1 DEF Sequential, SequentialScansFlag, OneIsBusy, Busy, WillFlag, OnlyMoves

LEMMA IncrementIsSequential ==
  ASSUME TypeOK, Sequential, NEW s \in Scanners, IncrementQuantity(s)
  PROVE  Sequential'
<1> DEFINE t == scan[s].type
<1>1. /\ OnlyMoves(s) /\ scan[s].pc = "update" /\ scan'[s].pc = "answer" /\ t \in Types
      /\ quantity' = [quantity EXCEPT ![t] = @ + 1]
      /\ flag' = [flag EXCEPT ![t] = @ \/ scan[s].flags]
      /\ UNCHANGED <<edits, raced>>
  BY PcMoves DEF IncrementQuantity, TypeOK, Scan
<1>2. OneIsBusy'
  BY <1>1 DEF Sequential, OneIsBusy, Busy, OnlyMoves
<1>3. WillFlag'
  <2>1. ~raced => \A r \in Scanners \ {s} : scan[r].pc # "update"
    BY <1>1 DEF Sequential, OneIsBusy, Busy
  <2> QED
    BY <1>1, <2>1 DEF WillFlag, OnlyMoves
<1>4. SequentialScansFlag'
  <2>1. SUFFICES ASSUME edits = 0, ~raced, quantity'["fulfill"] >= OrderQuantity
                 PROVE  flag'["fulfill"]
    BY <1>1 DEF SequentialScansFlag
  <2>2. CASE t # "fulfill"
    BY <1>1, <2>1, <2>2 DEF Sequential, SequentialScansFlag, TypeOK, Types
  <2>3. CASE t = "fulfill"
    <3>1. quantity["fulfill"] + 1 >= OrderQuantity
      BY <1>1, <2>1, <2>3 DEF TypeOK, Types
    <3>2. scan[s].flags
      BY <1>1, <2>1, <2>3, <3>1 DEF Sequential, WillFlag
    <3> QED
      BY <1>1, <2>3, <3>2 DEF TypeOK, Types
  <2> QED
    BY <2>2, <2>3
<1> QED
  BY <1>2, <1>3, <1>4 DEF Sequential

LEMMA SequentialNext == TypeOK /\ Sequential /\ [Next]_vars => Sequential'
<1> SUFFICES ASSUME TypeOK, Sequential, [Next]_vars PROVE Sequential'
  OBVIOUS
<1>1. CASE UNCHANGED vars
  BY <1>1 DEF vars, Sequential, OneIsBusy, WillFlag, SequentialScansFlag, Busy
<1>2. ASSUME NEW s \in Scanners, NEW t \in Types, FindLineItem(s, t) PROVE Sequential'
  BY <1>2, BeginIsSequential DEF FindLineItem
<1>3. ASSUME NEW s \in Scanners, ForceScan(s) PROVE Sequential'
  <2>1. scan[s].type \in Types
    BY DEF TypeOK, Scan
  <2> QED
    BY <1>3, <2>1, BeginIsSequential DEF ForceScan
<1>4. ASSUME NEW s \in Scanners, NEW t \in Types, NEW q \in 0 .. OrderQuantity,
             EditQuantity(s, t, q)
      PROVE  Sequential'
  BY <1>4 DEF EditQuantity, TypeOK, Sequential, OneIsBusy, WillFlag, SequentialScansFlag, Busy
<1> QED
  BY <1>1, <1>2, <1>3, <1>4, EndIsSequential, IncrementIsSequential DEF Next

\* Scans that do not overlap set the fulfilled flag with the scan that brings the
\* quantity ordered, also when answers are lost in between.
THEOREM SequentialScansAreFlagged == Spec => []SequentialScansFlag
<1>1. Init => Sequential
  <2> SUFFICES ASSUME Init PROVE Sequential
    OBVIOUS
  <2>1. \A s \in Scanners : scan[s].pc = "idle"
    BY DEF Init
  <2>2. ~(quantity["fulfill"] >= OrderQuantity)
    BY ScanAssumption DEF Init, Types
  <2> QED
    BY <2>1, <2>2 DEF Sequential, OneIsBusy, WillFlag, SequentialScansFlag, Busy
<1>2. Sequential => SequentialScansFlag
  BY DEF Sequential
<1> QED
  BY <1>1, <1>2, SequentialNext, ScanTypeCorrect, PTL DEF Spec
=============================================================================
