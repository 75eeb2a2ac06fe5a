----------------------------- MODULE ServicesProofs -----------------------------
(***************************************************************************)
(* Proofs about what surrounds the processing of messages: processes that  *)
(* start over one database (Startup), a client of the WebSocket            *)
(* (WebSocket), the consumer of gossip (P2pConsumer) and the backfill of   *)
(* every start (Backfill), for any number of processes, messages, copies   *)
(* and places in their queues.                                             *)
(***************************************************************************)
EXTENDS Startup, WebSocket, P2pConsumer, Backfill, FiniteSetTheorems, WellFoundedInduction,
        SequenceTheorems, TLAPS

-----------------------------------------------------------------------------
(* Sequences                                                               *)

LEMMA InToSet == ASSUME NEW S, NEW s \in Seq(S), NEW m
                 PROVE  m \in ToSet(s) <=> \E i \in 1..Len(s) : m = s[i]
BY DEF ToSet

LEMMA ToSetTail == ASSUME NEW S, NEW s \in Seq(S), s # <<>>
                   PROVE  /\ ToSet(s) = {Head(s)} \cup ToSet(Tail(s))
                          /\ Tail(s) \in Seq(S) /\ Head(s) \in S
<1>1. /\ Tail(s) \in Seq(S) /\ Len(Tail(s)) = Len(s) - 1 /\ Len(s) \in Nat \ {0}
      /\ \A i \in 1..Len(s) - 1 : Tail(s)[i] = s[i + 1]
      /\ Head(s) = s[1] /\ Head(s) \in S
  OBVIOUS
<1>2. /\ \A m : m \in ToSet(s) <=> \E i \in 1..Len(s) : m = s[i]
      /\ \A m : m \in ToSet(Tail(s)) <=> \E i \in 1..Len(s) - 1 : m = Tail(s)[i]
  <2>1. \A m : m \in ToSet(s) <=> \E i \in 1..Len(s) : m = s[i]
    BY InToSet
  <2>2. \A m : m \in ToSet(Tail(s)) <=> \E i \in 1..Len(Tail(s)) : m = Tail(s)[i]
    BY <1>1, InToSet
  <2> QED
    BY <2>1, <2>2, <1>1
<1>3. ASSUME NEW m PROVE m \in ToSet(s) => m = Head(s) \/ m \in ToSet(Tail(s))
  <2> SUFFICES ASSUME NEW i \in 1..Len(s), m = s[i], i # 1 PROVE \E j \in 1..Len(s) - 1 : m = Tail(s)[j]
    BY <1>1, <1>2
  <2> WITNESS i - 1 \in 1..Len(s) - 1
  <2> QED
    BY <1>1
<1>4. ASSUME NEW m PROVE m \in ToSet(Tail(s)) => m \in ToSet(s)
  <2> SUFFICES ASSUME NEW i \in 1..Len(s) - 1, m = Tail(s)[i] PROVE \E j \in 1..Len(s) : m = s[j]
    BY <1>2
  <2> WITNESS i + 1 \in 1..Len(s)
  <2> QED
    BY <1>1
<1>5. Head(s) \in ToSet(s)
  BY <1>1, <1>2
<1> QED
  BY <1>1, <1>3, <1>4, <1>5

LEMMA ToSetAppend == ASSUME NEW S, NEW s \in Seq(S), NEW e \in S
                     PROVE  /\ ToSet(Append(s, e)) = ToSet(s) \cup {e}
                            /\ Append(s, e) \in Seq(S)
<1>1. /\ Append(s, e) \in Seq(S) /\ Len(Append(s, e)) = Len(s) + 1 /\ Len(s) \in Nat
      /\ \A i \in 1..Len(s) : Append(s, e)[i] = s[i]
      /\ Append(s, e)[Len(s) + 1] = e
  OBVIOUS
<1>2. ASSUME NEW m PROVE m \in ToSet(Append(s, e)) <=> m \in ToSet(s) \/ m = e
  <2>1. m \in ToSet(s) <=> \E i \in 1..Len(s) : m = s[i]
    BY InToSet
  <2>2. m \in ToSet(Append(s, e)) <=> \E i \in 1..Len(Append(s, e)) : m = Append(s, e)[i]
    <3> DEFINE t == Append(s, e)
    <3>1. t \in Seq(S)
      BY <1>1
    <3> HIDE DEF t
    <3>2. m \in ToSet(t) <=> \E i \in 1..Len(t) : m = t[i]
      BY <3>1, InToSet
    <3> QED
      BY <3>2 DEF t
  <2> QED
    BY <2>1, <2>2, <1>1
<1> QED
  BY <1>1, <1>2

LEMMA AppendIsNotEmpty == ASSUME NEW S, NEW s \in Seq(S), NEW e \in S PROVE Append(s, e) # <<>>
<1>1. Len(Append(s, e)) = Len(s) + 1 /\ Len(s) \in Nat
  OBVIOUS
<1>2. Len(Append(s, e)) # Len(<<>>)
  BY <1>1, EmptySeq
<1> QED
  BY <1>2, Zenon

\* A set of numbers has a least element.
LEMMA Least == ASSUME NEW T \in SUBSET Nat, T # {} PROVE \E n \in T : \A m \in T : n <= m
<1> DEFINE R == OpToRel(<, Nat)
<1>1. IsWellFoundedOn(R, Nat)
  BY NatLessThanWellFounded
<1>2. \A x, y \in Nat : <<x, y>> \in R <=> x < y
  BY DEF OpToRel
<1> HIDE DEF R
<1>3. PICK n \in T : \A m \in T : ~ (<<m, n>> \in R)
  BY <1>1, WFMin
<1>4. \A m \in T : ~ (m < n)
  BY <1>2, <1>3
<1> QED
  BY <1>4

\* RemoveFirst of the community modules adds no element.
LEMMA RemoveFirstKeeps == ASSUME NEW S, NEW s \in Seq(S), NEW e
    PROVE  RemoveFirst(s, e) \in Seq(S) /\ ToSet(RemoveFirst(s, e)) \subseteq ToSet(s)
<1>1. CASE \E i \in 1..Len(s) : s[i] = e
  <2> DEFINE I == {i \in 1..Len(s) : s[i] = e}
             k == SelectInSeq(s, LAMBDA v : v = e)
             t == RemoveAt(s, k)
  <2>1. I \subseteq Nat /\ I # {}
    BY <1>1
  <2>2. k \in I
    <3>1. k = CHOOSE x \in I : \A y \in I : x <= y
      BY <2>1 DEF SelectInSeq, Min
    <3>2. \E x \in I : \A y \in I : x <= y
      BY <2>1, Least
    <3> HIDE DEF I, k
    <3> QED
      BY <3>1, <3>2
  <2>3. RemoveFirst(s, e) = t
    BY <1>1 DEF RemoveFirst
  <2> HIDE DEF k
  <2>4. /\ t \in Seq(S) /\ Len(t) = Len(s) - 1
        /\ \A i \in 1..Len(t) : t[i] = IF i < k THEN s[i] ELSE s[i + 1]
    <3> DEFINE a == SubSeq(s, 1, k - 1)
               b == SubSeq(s, k + 1, Len(s))
    <3>1. k \in 1..Len(s) /\ Len(s) \in Nat
      BY <2>2
    <3>2. a \in Seq(S) /\ Len(a) = k - 1 /\ \A i \in 1..k - 1 : a[i] = s[i]
      BY <3>1
    <3>3. b \in Seq(S) /\ Len(b) = Len(s) - k /\ \A i \in 1..Len(s) - k : b[i] = s[k + i]
      BY <3>1
    <3>4. t = a \o b
      BY DEF RemoveAt
    <3> HIDE DEF a, b
    <3>5. /\ a \o b \in Seq(S) /\ Len(a \o b) = Len(s) - 1
          /\ \A i \in 1..Len(s) - 1 : (a \o b)[i] = IF i < k THEN a[i] ELSE b[i - k + 1]
      <4>1. a \o b \in Seq(S) /\ Len(a \o b) = Len(a) + Len(b)
        BY <3>2, <3>3, ConcatProperties
      <4>2. \A i \in 1..Len(a) + Len(b) : (a \o b)[i] = IF i <= Len(a) THEN a[i] ELSE b[i - Len(a)]
        BY <3>2, <3>3, ConcatProperties
      <4>3. Len(a) = k - 1 /\ Len(b) = Len(s) - k /\ k \in Nat
        BY <3>1, <3>2, <3>3
      <4>4. ASSUME NEW i \in 1..Len(s) - 1
            PROVE  (a \o b)[i] = IF i < k THEN a[i] ELSE b[i - k + 1]
        <5>1. i <= k - 1 <=> i < k
          BY <4>3
        <5>2. i - (k - 1) = i - k + 1
          BY <4>3
        <5> QED
          BY <4>2, <4>3, <5>1, <5>2, <3>1
      <4>5. Len(a) + Len(b) = Len(s) - 1
        BY <4>3, <3>1
      <4>6. \A i \in 1..Len(s) - 1 : (a \o b)[i] = IF i < k THEN a[i] ELSE b[i - k + 1]
        BY <4>4
      <4> QED
        BY <4>1, <4>5, <4>6
    <3>6. \A i \in 1..Len(s) - 1 : (a \o b)[i] = IF i < k THEN s[i] ELSE s[i + 1]
      <4> SUFFICES ASSUME NEW i \in 1..Len(s) - 1
                   PROVE  (a \o b)[i] = IF i < k THEN s[i] ELSE s[i + 1]
        OBVIOUS
      <4>1. CASE i < k
        <5>1. i \in 1..k - 1
          BY <3>1, <4>1
        <5> QED  BY <3>2, <3>5, <4>1, <5>1
      <4>2. CASE ~ (i < k)
        <5>1. i - k + 1 \in 1..Len(s) - k /\ k + (i - k + 1) = i + 1
          BY <3>1, <4>2
        <5> QED  BY <3>3, <3>5, <4>2, <5>1
      <4> QED  BY <4>1, <4>2
    <3> QED
      BY <3>4, <3>5, <3>6
  <2> HIDE DEF t
  <2>5. ASSUME NEW m \in ToSet(t) PROVE m \in ToSet(s)
    <3>1. PICK i \in 1..Len(t) : m = t[i]
      BY <2>4, InToSet
    <3>2. m = s[i] \/ m = s[i + 1]
      BY <2>4, <3>1
    <3> QED
      BY <2>4, <3>1, <3>2, InToSet
  <2> QED
    BY <2>3, <2>4, <2>5
<1>2. CASE ~ \E i \in 1..Len(s) : s[i] = e
  BY <1>2 DEF RemoveFirst
<1> QED
  BY <1>1, <1>2

-----------------------------------------------------------------------------
(* Startup                                                                 *)

\* The statements by number.
LEMMA MigrationList ==
    /\ DOMAIN Migrations = 1..16 /\ Len(Migrations) = 16
    /\ Migrations[1] = BaseTables
    /\ Migrations[2] = Create("column", PinColumns, {<<"file_pins">>})
    /\ Migrations[3] = Create("index", {<<"file_pins", "unique_typed", "index">>}, PinColumns)
    /\ Migrations[4] = file_tags_v2 /\ Migrations[5] = VmTables
    /\ Migrations[6] = ChainTables /\ Migrations[7] = PeerTable
    /\ Migrations[8] = WideColumns /\ Migrations[9] = denormalize_messages
    /\ Migrations[10] = message_confirmations /\ Migrations[11] = alter_chain_txs
    /\ Migrations[12] = Create("table", {<<"message_counts">>}, {})
    /\ Migrations[13] = Create("replace", {Function}, {})
    /\ Migrations[14] = DropTrigger /\ Migrations[15] = CreateTrigger
    /\ Migrations[16] = create_indexes
<1> DEFINE pins == alter_file_pins_v2
           tally == create_message_counts_table
<1>1. Migrations = <<BaseTables, pins[1], pins[2], file_tags_v2, VmTables, ChainTables, PeerTable,
                     WideColumns, denormalize_messages, message_confirmations, alter_chain_txs,
                     tally[1], tally[2], tally[3], tally[4], create_indexes>>
  BY DEF Migrations
<1>2. /\ pins[1] = Create("column", PinColumns, {<<"file_pins">>})
      /\ pins[2] = Create("index", {<<"file_pins", "unique_typed", "index">>}, PinColumns)
  BY DEF alter_file_pins_v2
<1>3. /\ tally[1] = Create("table", {<<"message_counts">>}, {})
      /\ tally[2] = Create("replace", {Function}, {})
      /\ tally[3] = DropTrigger /\ tally[4] = CreateTrigger
  BY DEF create_message_counts_table, TriggerStatements
<1> HIDE DEF pins, tally
<1> QED
  BY <1>1, <1>2, <1>3

Step == 1..16

LEMMA Kinds == \A i \in Step :
    /\ Migrations[i].kind = "replace" <=> i = 13
    /\ Migrations[i].kind = "drop" <=> i = 14
    /\ Migrations[i].kind = "trigger" <=> i = 15
    /\ Migrations[i].kind \in {"table", "column", "index", "widen", "replace", "drop", "trigger"}
BY MigrationList DEF Step, Create, BaseTables, file_tags_v2, VmTables, ChainTables,
   PeerTable, WideColumns, denormalize_messages, message_confirmations, alter_chain_txs,
   DropTrigger, CreateTrigger, create_indexes

LEMMA Makes13 == Migrations[13].makes = {Function} /\ Migrations[14].makes = {Trigger} /\ Migrations[15].makes = {Trigger}
BY MigrationList DEF Step, Create, DropTrigger, CreateTrigger

LEMMA FunctionApart == \A i \in Step \ {13} : Function \notin Migrations[i].makes
<1> SUFFICES ASSUME NEW i \in Step \ {13} PROVE Function \notin Migrations[i].makes
 OBVIOUS
<1>1. ASSUME NEW t, NEW S PROVE Function \notin Indexed(Columns(t, S))
  BY DEF Indexed, Columns, Function
<1>2. ASSUME NEW t, NEW S PROVE Function \notin Columns(t, S)
  BY <1>2 DEF Columns, Function
<1>4. CASE i \in {1, 4, 5, 6, 7, 8, 10, 12, 14, 15}
  BY <1>4, MigrationList DEF Create, BaseTables, file_tags_v2, VmTables, ChainTables,
     PeerTable, WideColumns, message_confirmations, Function, Trigger, DropTrigger,
     CreateTrigger
<1>5. CASE i = 2
  BY <1>2, <1>5, MigrationList DEF Create, PinColumns
<1>6. CASE i = 3
  BY <1>6, MigrationList DEF Create, Function
<1>7. CASE i = 9
  BY <1>7, <1>2, MigrationList DEF Create, denormalize_messages, DenormColumns
<1>8. CASE i = 11
  BY <1>8, <1>2, MigrationList DEF Create, alter_chain_txs, ConfirmedColumns
<1>9. CASE i = 16
  BY <1>9, <1>1, MigrationList DEF Create, create_indexes, Indexed, Function
<1> QED
  BY <1>4, <1>5, <1>6, <1>7, <1>8, <1>9 DEF Step

LEMMA TriggerApart == \A i \in Step \ {14, 15} : Trigger \notin Migrations[i].makes
<1> SUFFICES ASSUME NEW i \in Step \ {14, 15} PROVE Trigger \notin Migrations[i].makes
 OBVIOUS
<1>1. ASSUME NEW t, NEW S PROVE Trigger \notin Indexed(Columns(t, S))
  BY DEF Indexed, Columns, Trigger
<1>2. ASSUME NEW t, NEW S, "trg_message_counts" \notin S PROVE Trigger \notin Columns(t, S)
  BY <1>2 DEF Columns, Trigger
<1>3. ASSUME NEW S PROVE Trigger \notin {<<t>> : t \in S}
  BY DEF Trigger
<1>4. CASE i \in {1, 4, 5, 6, 7, 8, 10, 12, 13}
  BY <1>3, <1>4, MigrationList DEF Create, BaseTables, file_tags_v2, VmTables,
     ChainTables, PeerTable, WideColumns, message_confirmations, Function, Trigger
<1>5. CASE i = 2
  BY <1>2, <1>5, MigrationList DEF Create, PinColumns
<1>6. CASE i = 3
  BY <1>6, MigrationList DEF Create, Trigger
<1>7. CASE i = 9
  BY <1>7, <1>2, MigrationList DEF Create, denormalize_messages, DenormColumns
<1>8. CASE i = 11
  BY <1>8, <1>2, MigrationList DEF Create, alter_chain_txs, ConfirmedColumns
<1>9. CASE i = 16
  BY <1>9, <1>1, MigrationList DEF Create, create_indexes, Indexed, Trigger
<1> QED
  BY <1>4, <1>5, <1>6, <1>7, <1>8, <1>9 DEF Step

\* What the first k statements make.
Made(k) == UNION {Migrations[i].makes : i \in 1..k}

\* A statement needs what those before it made, and never the trigger.
LEMMA NeedsMade == ASSUME NEW i \in Step PROVE Migrations[i].needs \subseteq Made(i - 1) \ {Trigger}
<1>1. CASE i \in {1, 4, 5, 6, 7, 8, 10, 12, 13}
  BY <1>1, MigrationList DEF Create, BaseTables, file_tags_v2, VmTables, ChainTables,
     PeerTable, WideColumns, message_confirmations
<1>2. {<<"file_pins">>, <<"messages">>} \subseteq Migrations[1].makes \ {Trigger}
  BY MigrationList DEF Create, BaseTables, Trigger
<1>3. CASE i \in {2, 9, 14}
  BY <1>2, <1>3, MigrationList DEF Create, denormalize_messages, DropTrigger, Made
<1>4. CASE i = 3
  <2>1. PinColumns \subseteq Migrations[2].makes \ {Trigger}
    BY MigrationList, TriggerApart DEF Create, Step
  <2> QED
    BY <2>1, <1>4, MigrationList DEF Create, Made
<1>5. CASE i = 11
  <2>1. <<"chain_txs">> \in Migrations[6].makes \ {Trigger}
    BY MigrationList DEF Create, ChainTables, Trigger
  <2> QED
    BY <2>1, <1>5, MigrationList DEF Create, Made, alter_chain_txs
<1>6. CASE i = 15
  <2>1. Function \in Migrations[13].makes \ {Trigger}
    BY MigrationList DEF Create, Trigger, Function
  <2> QED
    BY <2>1, <1>2, <1>6, MigrationList DEF CreateTrigger, Made
<1>7. CASE i = 16
  <2>1. /\ BaseTables.makes = Migrations[1].makes /\ VmTables.makes = Migrations[5].makes
        /\ ChainTables.makes = Migrations[6].makes /\ PeerTable.makes = Migrations[7].makes
        /\ DenormColumns = Migrations[9].makes
        /\ Columns("file_pins", {"ref_"}) \subseteq Migrations[2].makes
    BY MigrationList DEF Create, denormalize_messages, PinColumns, Columns
  <2>2. Migrations[16].needs \subseteq UNION {Migrations[k].makes : k \in {1, 2, 5, 6, 7, 9}}
    BY <2>1, MigrationList DEF Create, create_indexes
  <2> QED
    BY <2>2, <1>7, TriggerApart DEF Made, Step
<1> QED
  BY <1>1, <1>3, <1>4, <1>5, <1>6, <1>7 DEF Step

\* An index that the last statement alone makes, so its mark.
Mark == <<"messages", "status", "index">>

LEMMA MarkIsLast == Mark \in create_indexes.makes /\ \A i \in 1..15 : Mark \notin Migrations[i].makes
<1>1. Mark \in create_indexes.makes
  <2>1. <<"messages", "status">> \in DenormColumns \ (Columns("messages", {"content_item_hash",
                        "first_confirmed_at", "first_confirmed_height"}))
    BY DEF DenormColumns, Columns
  <2> QED
    BY <2>1 DEF create_indexes, Create, Indexed, Mark
<1>2. ASSUME NEW i \in 1..15 PROVE Mark \notin Migrations[i].makes
  <2>2. ASSUME NEW t, NEW S PROVE Mark \notin Columns(t, S)
    BY DEF Columns, Mark
  <2>3. ASSUME NEW S PROVE Mark \notin {<<t>> : t \in S}
    BY DEF Mark
  <2>4. CASE i \in {1, 4, 5, 6, 7, 8, 10, 12, 13, 14, 15}
    BY <2>3, <2>4, MigrationList DEF Create, BaseTables, file_tags_v2, VmTables,
       ChainTables, PeerTable, WideColumns, message_confirmations, Function, Trigger,
       DropTrigger, CreateTrigger, Mark
  <2>5. CASE i \in {2, 9, 11}
    BY <2>2, <2>5, MigrationList DEF Create, PinColumns, denormalize_messages,
       DenormColumns, alter_chain_txs, ConfirmedColumns
  <2>6. CASE i = 3
    BY <2>6, MigrationList DEF Create, Mark
  <2> QED
    BY <2>4, <2>5, <2>6
<1> QED
  BY <1>1, <1>2

\* Where a process stands: out of the way, in the migrations, past them.
Aside == {"down", "api only"}
Underway == {"migrate", "exit after migrate"}
Beyond == {"spawn", "down"}

StartTypeOK ==
    /\ schema \subseteq Schema /\ round \in {"on", "through", "disturbed"}
    /\ DOMAIN main = Process /\ DOMAIN statement = Process
    /\ DOMAIN checked = Process /\ DOMAIN running = Process
    /\ \A p \in Process : statement[p] \in 0..16

\* A process is in the migrations while it has a statement, and has found missing only
\* what that statement makes.
InStep ==
    \A p \in Process :
        /\ Migrating(p) <=> statement[p] # 0
        /\ checked[p] # {} => /\ statement[p] # 0 /\ Guarded(Migrations[statement[p]].kind)
                              /\ checked[p] \subseteq Migrations[statement[p]].makes

\* What the statements behind a process made is there, but for the trigger; and what it
\* did not find missing still is.
PastIsMade ==
    \A p \in Process :
        /\ statement[p] # 0 => Made(statement[p] - 1) \ {Trigger} \subseteq schema
        /\ checked[p] # {} => Migrations[statement[p]].makes \ {Trigger} \subseteq schema \cup checked[p]

\* A process past its migrations has the whole schema.
TasksAreLate ==
    \A p \in Process : main[p] \in {"spawn", "relay", "bind"} \/ running[p] \ {"api"} # {} =>
        Schema \ {Trigger} \subseteq schema

\* Once a process has come to the last statement, a trigger that is missing is about to be
\* made again, or was not for the crash of one.
TriggerIsMissed ==
    Mark \in schema \/ (\E p \in Process : statement[p] = 16) =>
        Trigger \in schema \/ interrupted \/ \E p \in Process : statement[p] = 15

\* Nothing refuses the statement of p: the trigger is not there before it creates it, and
\* nobody has made what it found missing.  CREATE OR REPLACE never is refused for what is
\* there.
Free(p) ==
    /\ Migrating(p)
    /\ statement[p] = 15 => Trigger \notin schema
    /\ statement[p] # 13 => checked[p] \cap schema = {}

\* What makes SomebodyGetsThrough inductive.  A statement is refused only because another
\* process has just done it, and so moved on to a statement where it is free; or because
\* two replace the function at once, when the other one is free.
OneIsFree == round = "on" => \E p \in Process : Free(p)

StartInv == StartTypeOK /\ InStep /\ PastIsMade /\ TasksAreLate /\ TriggerIsMissed /\ OneIsFree

LEMMA SchemaIsMade == /\ Schema = Made(16)
                      /\ \A i \in Step : Migrations[i].makes \subseteq Schema
                      /\ \A i \in Step : Made(i) = Made(i - 1) \cup Migrations[i].makes
                      /\ Made(0) = {}
<1>1. Schema = Made(16)
  BY MigrationList DEF Schema, Made, Step
<1>2. \A i \in Step : Migrations[i].makes \subseteq Schema
  BY MigrationList DEF Schema, Step
<1>3. \A i \in Step : Made(i) = Made(i - 1) \cup Migrations[i].makes
  BY MigrationList DEF Made, Step
<1>4. Made(0) = {}
  BY DEF Made
<1> QED  BY <1>1, <1>2, <1>3, <1>4


LEMMA StartLen == Len(Migrations) = 16
BY MigrationList

LEMMA StartInit == StartupInit => StartInv
<1> SUFFICES ASSUME StartupInit PROVE StartInv
  OBVIOUS
<1> USE DEF StartupInit
<1>1. StartTypeOK
  BY DEF StartTypeOK
<1>2. InStep
  BY DEF InStep, Migrating
<1>3. PastIsMade
  BY DEF PastIsMade
<1>4. TasksAreLate
  BY DEF TasksAreLate
<1>5. TriggerIsMissed
  BY DEF TriggerIsMissed
<1>6. OneIsFree
  BY DEF OneIsFree
<1> QED
  BY <1>1, <1>2, <1>3, <1>4, <1>5, <1>6 DEF StartInv

\* Where a process is in the list, and what it finds missing there.
LEMMA StepOf == ASSUME StartTypeOK, InStep, NEW p \in Process, Migrating(p)
                PROVE  /\ statement[p] \in Step
                       /\ statement[p] \in 1..16
                       /\ checked[p] \subseteq Migrations[statement[p]].makes
BY DEF StartTypeOK, InStep, Step

LEMMA NeedsAreThere == ASSUME StartTypeOK, InStep, PastIsMade, NEW p \in Process, Migrating(p)
                       PROVE  Migrations[statement[p]].needs \subseteq schema
BY StepOf, NeedsMade DEF PastIsMade, InStep, StartTypeOK, Step

LEMMA CommitIsLate == ASSUME StartTypeOK, InStep, NEW p \in Process, checked[p] # {}
                      PROVE  Migrating(p) /\ statement[p] \in Step \ {14, 15}
BY Kinds DEF StartTypeOK, InStep, Step, Guarded


LEMMA BetweenThere == \A p \in Process : statement[p] = 15 => Between(p)
BY Kinds DEF Between, Step

\* A process moves on: to the next statement, or past the last.
LEMMA Advanced == ASSUME StartTypeOK, InStep, NEW p \in Process, Migrating(p), Advance(p)
    PROVE  /\ DOMAIN main' = Process /\ DOMAIN statement' = Process /\ DOMAIN checked' = Process
           /\ \A q \in Process \ {p} : /\ main'[q] = main[q] /\ statement'[q] = statement[q]
                                       /\ checked'[q] = checked[q]
           /\ checked'[p] = {} /\ running' = running
           /\ statement[p] # 16 => statement'[p] = statement[p] + 1 /\ main'[p] = main[p] /\ round' = round
           /\ statement[p] = 16 => /\ statement'[p] = 0 /\ main'[p] \in Beyond
                                   /\ round' \in {"through", "disturbed"}
<1> USE StartLen, StepOf DEF StartTypeOK, Advance
<1>1. /\ DOMAIN checked' = Process /\ checked'[p] = {} /\ running' = running
      /\ \A q \in Process \ {p} : checked'[q] = checked[q]
  OBVIOUS
<1>2. /\ DOMAIN statement' = Process /\ \A q \in Process \ {p} : statement'[q] = statement[q]
      /\ statement'[p] = IF statement[p] = 16 THEN 0 ELSE statement[p] + 1
  OBVIOUS
<1>3. /\ DOMAIN main' = Process /\ \A q \in Process \ {p} : main'[q] = main[q]
      /\ statement[p] # 16 => main'[p] = main[p]
  OBVIOUS
<1>4. statement[p] = 16 => main'[p] \in Beyond
  BY DEF Beyond
<1>5. /\ statement[p] # 16 => round' = round
      /\ statement[p] = 16 => round' \in {"through", "disturbed"}
  OBVIOUS
<1> QED
  BY <1>1, <1>2, <1>3, <1>4, <1>5

\* What is left to see of a process that moves on, once what it did to the schema is known.
LEMMA AdvanceKeeps == ASSUME StartInv, NEW p \in Process, Migrating(p), Advance(p),
                             schema' \subseteq Schema,
                             schema \ {Trigger} \subseteq schema',
                             Migrations[statement[p]].makes \ {Trigger} \subseteq schema',
                             statement[p] = 14 => Trigger \notin schema'
                      PROVE  StartTypeOK' /\ InStep' /\ PastIsMade' /\ TasksAreLate' /\ OneIsFree'
<1> DEFINE s == statement[p]
<1> USE Advanced, StepOf DEF StartInv
<1>1. StartTypeOK'
  BY Advanced DEF StartTypeOK, Step
<1>2. InStep'
  <2> SUFFICES ASSUME NEW q \in Process
               PROVE  /\ Migrating(q)' <=> statement'[q] # 0
                      /\ checked'[q] # {} => /\ statement'[q] # 0 /\ Guarded(Migrations[statement'[q]].kind)
                                             /\ checked'[q] \subseteq Migrations[statement'[q]].makes
    BY DEF InStep
  <2>1. CASE q # p
    <3>1. Migrating(q)' <=> Migrating(q)
      <4>1. main'[q] = main[q]
        BY <2>1
      <4> QED
        BY <4>1 DEF Migrating
    <3> QED
      BY <2>1, <3>1 DEF InStep
  <2>2. CASE q = p
    <3>1. Migrating(p)' <=> s # 16
      <4>1. s # 16 => main'[p] = main[p]
        OBVIOUS
      <4>2. s = 16 => main'[p] \notin {"migrate", "exit after migrate"}
        BY DEF Beyond
      <4> QED
        BY <4>1, <4>2 DEF Migrating
    <3>2. statement'[p] # 0 <=> s # 16
      BY DEF Step
    <3> QED
      BY <2>2, <3>1, <3>2
  <2> QED
    BY <2>1, <2>2
<1>3. Made(s) \ {Trigger} \subseteq schema'
  BY SchemaIsMade DEF PastIsMade, StartTypeOK, Step
<1>4. PastIsMade'
  <2> SUFFICES ASSUME NEW q \in Process
               PROVE  /\ statement'[q] # 0 => Made(statement'[q] - 1) \ {Trigger} \subseteq schema'
                      /\ checked'[q] # {} => Migrations[statement'[q]].makes \ {Trigger} \subseteq schema' \cup checked'[q]
    BY DEF PastIsMade
  <2>1. CASE q # p
    BY <2>1 DEF StartTypeOK, PastIsMade
  <2>2. CASE q = p
    BY <2>2, <1>3 DEF StartTypeOK, Step
  <2> QED
    BY <2>1, <2>2
<1>5. TasksAreLate'
  <2> SUFFICES ASSUME NEW q \in Process,
                      main'[q] \in {"spawn", "relay", "bind"} \/ running'[q] \ {"api"} # {}
               PROVE  Schema \ {Trigger} \subseteq schema'
    BY DEF TasksAreLate
  <2>1. CASE main[q] \in {"spawn", "relay", "bind"} \/ running[q] \ {"api"} # {}
    BY <2>1 DEF TasksAreLate
  <2>2. CASE s = 16
    BY <2>2, <1>3, SchemaIsMade
  <2> QED
    BY <2>1, <2>2 DEF StartTypeOK
<1>6. OneIsFree'
  <2>1. CASE s = 16
    BY <2>1 DEF OneIsFree
  <2>2. CASE s # 16
    <3>1. Migrating(p)' /\ statement'[p] = s + 1 /\ checked'[p] = {}
      BY <2>2 DEF Migrating
    <3>2. Free(p)'
      BY <3>1, <2>2 DEF Free, Step
    <3> QED
      BY <3>2 DEF OneIsFree
  <2> QED
    BY <2>1, <2>2
<1> QED
  BY <1>1, <1>2, <1>4, <1>5, <1>6

LEMMA MissedStill == ASSUME StartInv, NEW p \in Process, Migrating(p), Advance(p), statement[p] \notin {14, 15},
                            schema' = schema \cup Migrations[statement[p]].makes, interrupted => interrupted'
                     PROVE  TriggerIsMissed'
<1> DEFINE s == statement[p]
<1> USE StepOf DEF StartInv
<1>1. Mark \in schema' => Mark \in schema \/ s = 16
  BY MarkIsLast DEF Step
<1>2. \A q \in Process : (statement[q] = 15 <=> statement'[q] = 15) /\ (statement'[q] = 16 => statement[q] = 16)
  BY Advanced DEF StartTypeOK, Step
<1> QED
  BY <1>1, <1>2 DEF TriggerIsMissed

LEMMA StartExecute == ASSUME StartInv, NEW p \in Process, execute(p) PROVE StartInv'
<1> DEFINE s == statement[p]
<1> USE StepOf DEF StartInv
<1>1. Migrating(p) /\ checked[p] = {} /\ Advance(p)
  BY DEF execute
<1>2. /\ Migrations[s].kind = "drop" => schema' = schema \ Migrations[s].makes
      /\ Migrations[s].kind = "trigger" => schema' = schema \cup Migrations[s].makes
      /\ Guarded(Migrations[s].kind) => Migrations[s].kind # "replace" /\ Missing(Migrations[s].makes) = {} /\ schema' = schema
      /\ Migrations[s].kind \in {"column", "widen"} => schema' = schema \cup Migrations[s].makes
  BY Kinds, <1>1 DEF execute, Guarded, Step
<1>3. /\ s = 14 => schema' = schema \ {Trigger}
      /\ s # 14 => schema' = schema \cup Migrations[s].makes
  BY <1>1, <1>2, Kinds, Makes13 DEF Guarded, Missing, Step
<1>4. /\ schema' \subseteq Schema
      /\ schema \ {Trigger} \subseteq schema'
      /\ Migrations[s].makes \ {Trigger} \subseteq schema'
      /\ s = 14 => Trigger \notin schema'
  BY <1>1, <1>3, SchemaIsMade, Makes13 DEF StartTypeOK
<1>5. StartTypeOK' /\ InStep' /\ PastIsMade' /\ TasksAreLate' /\ OneIsFree'
  BY <1>1, <1>4, AdvanceKeeps
<1>6. TriggerIsMissed'
  <2>1. CASE s = 14
    <3>1. statement'[p] = 15
      BY <1>1, <2>1, Advanced DEF StartTypeOK
    <3> QED
      BY <3>1 DEF TriggerIsMissed
  <2>2. CASE s = 15
    BY <1>3, <2>2, Makes13 DEF TriggerIsMissed
  <2>3. CASE s \notin {14, 15}
    <3>1. interrupted => interrupted'
      <4>1. Migrations[s].kind # "trigger"
        BY <1>1, <2>3, Kinds
      <4> QED
        BY <4>1 DEF execute
    <3> QED
      BY <3>1, <1>1, <1>3, <2>3, MissedStill
  <2> QED
    BY <2>1, <2>2, <2>3
<1> QED
  BY <1>5, <1>6


LEMMA StartCommit == ASSUME StartInv, NEW p \in Process, commit(p) PROVE StartInv'
<1> DEFINE s == statement[p]
<1> USE DEF StartInv
<1>1. Migrating(p) /\ s \in Step \ {14, 15} /\ Advance(p)
  BY CommitIsLate DEF commit
<1>2. schema' = schema \cup checked[p] /\ checked[p] \subseteq Migrations[s].makes
  BY <1>1, StepOf DEF commit
<1>3. schema' = schema \cup Migrations[s].makes
  BY <1>1, <1>2, TriggerApart DEF PastIsMade, commit
<1>4. StartTypeOK' /\ InStep' /\ PastIsMade' /\ TasksAreLate' /\ OneIsFree'
  BY <1>1, <1>3, AdvanceKeeps, SchemaIsMade DEF StartTypeOK
<1>5. TriggerIsMissed'
  <2>1. interrupted' = interrupted
    BY DEF commit
  <2> QED
    BY <1>1, <1>3, <2>1, MissedStill
<1> QED
  BY <1>4, <1>5

\* The steps that leave the schema alone and move no process to another statement.
LEMMA LeavesStatement == ASSUME StartInv, NEW p \in Process, statement'[p] \in {0, 1} \cup {statement[p]},
                                statement' = [statement EXCEPT ![p] = statement'[p]],
                                schema' = schema, interrupted => interrupted',
                                statement[p] = 15 => interrupted' \/ statement'[p] = 15
                     PROVE  TriggerIsMissed'
<1> USE DEF StartInv
<1>1. \A q \in Process : statement'[q] = 16 => statement[q] = 16
  BY DEF StartTypeOK
<1>2. \A q \in Process : statement[q] = 15 => interrupted' \/ statement'[q] = 15
  BY DEF StartTypeOK
<1> QED
  BY <1>1, <1>2 DEF TriggerIsMissed

\* A process that goes out of the migrations, or stays out.
LEMMA LeavesKeeps == ASSUME StartInv, NEW p \in Process, NEW line \in Aside,
                            main' = [main EXCEPT ![p] = line], statement' = [statement EXCEPT ![p] = 0],
                            checked' = [checked EXCEPT ![p] = {}], schema' = schema,
                            NEW tasks \in SUBSET {"api"},
                            running' = [running EXCEPT ![p] = tasks],
                            interrupted' = (interrupted \/ Between(p))
                     PROVE  InStep' /\ PastIsMade' /\ TasksAreLate' /\ TriggerIsMissed'
<1> USE DEF StartInv
<1>1. InStep'
  <2>1. line \notin {"migrate", "exit after migrate", "spawn", "relay", "bind"}
    BY DEF Aside
  <2> QED
    BY <2>1 DEF StartTypeOK, InStep, Migrating
<1>2. PastIsMade'
  BY DEF StartTypeOK, PastIsMade
<1>3. TasksAreLate'
  <2>1. line \notin {"spawn", "relay", "bind"}
    BY DEF Aside
  <2> QED
    BY <2>1 DEF StartTypeOK, TasksAreLate
<1>4. statement[p] = 15 => interrupted'
  <2>1. statement[p] = 15 => Between(p)
    BY BetweenThere
  <2> QED
    BY <2>1, Zenon
<1>5. interrupted => interrupted'
  OBVIOUS
<1>6. TriggerIsMissed'
  BY <1>4, <1>5, LeavesStatement DEF StartTypeOK
<1> QED
  BY <1>1, <1>2, <1>3, <1>6

LEMMA StartFails == ASSUME StartInv, NEW p \in Process, init_db_fails(p) PROVE StartInv'
<1> USE DEF StartInv
<1>1. PICK line \in Aside, tasks \in SUBSET {"api"} :
          /\ main' = [main EXCEPT ![p] = line] /\ running' = [running EXCEPT ![p] = tasks]
  BY DEF init_db_fails, Goes, Aside
<1>2. /\ statement' = [statement EXCEPT ![p] = 0] /\ checked' = [checked EXCEPT ![p] = {}] /\ schema' = schema
      /\ Migrating(p)
      /\ (Refused(p) /\ round' = round) \/ round' = "disturbed"
  BY DEF init_db_fails, Mishap
<1>3. interrupted' = (interrupted \/ Between(p))
  BY DEF init_db_fails
<1>4. StartTypeOK'
  BY <1>1, <1>2 DEF StartTypeOK, Step
<1>5. InStep' /\ PastIsMade' /\ TasksAreLate' /\ TriggerIsMissed'
  BY <1>1, <1>2, <1>3, LeavesKeeps DEF Aside
<1>6. OneIsFree'
  <2> SUFFICES ASSUME Refused(p), round = "on" PROVE \E q \in Process : Free(q)'
    BY <1>2 DEF OneIsFree
  <2>1. \E q \in Process \ {p} : Free(q)
    <3>1. PICK q \in Process : Free(q)
      BY DEF OneIsFree
    <3>2. CASE q # p
      BY <3>1, <3>2
    <3>3. CASE q = p
      <4>1. \E r \in Process \ {p} : checked[r] = {Function}
        BY <3>1, <3>3, <1>2, StepOf, NeedsAreThere, Kinds DEF Refused, Free, Step
      <4>2. PICK r \in Process \ {p} : checked[r] = {Function}
        BY <4>1
      <4>3. Migrating(r) /\ statement[r] = 13
        BY <4>2, CommitIsLate, StepOf, FunctionApart DEF Step
      <4>4. Free(r)
        BY <4>3 DEF Free
      <4> QED
        BY <4>4
    <3> QED
      BY <3>2, <3>3
  <2>2. ASSUME NEW q \in Process \ {p}, Free(q) PROVE Free(q)'
    BY <2>2, <1>1, <1>2 DEF Free, Migrating, StartTypeOK
  <2> QED
    BY <2>1, <2>2
<1> QED
  BY <1>4, <1>5, <1>6

LEMMA StartGone == ASSUME StartInv, NEW p \in Process, Gone(p), schema' = schema, main[p] # "down",
                          IF Migrating(p) THEN round' = "disturbed" ELSE round' = round
                   PROVE StartInv'
<1> USE DEF StartInv
<1>1. /\ main' = [main EXCEPT ![p] = "down"] /\ running' = [running EXCEPT ![p] = {}]
      /\ statement' = [statement EXCEPT ![p] = 0] /\ checked' = [checked EXCEPT ![p] = {}]
  BY DEF Gone, Goes
<1>2. interrupted' = (interrupted \/ Between(p))
  BY DEF Gone
<1>3. StartTypeOK'
  BY <1>1 DEF StartTypeOK, Step
<1>4. InStep' /\ PastIsMade' /\ TasksAreLate' /\ TriggerIsMissed'
  BY <1>1, <1>2, LeavesKeeps DEF Aside
<1>5. OneIsFree'
  <2> SUFFICES ASSUME ~ Migrating(p), round = "on" PROVE \E q \in Process : Free(q)'
    BY DEF OneIsFree
  <2>1. PICK q \in Process \ {p} : Free(q)
    BY DEF OneIsFree, Free
  <2>2. Free(q)'
    BY <2>1, <1>1 DEF Free, Migrating, StartTypeOK
  <2> QED
    BY <2>2
<1> QED
  BY <1>3, <1>4, <1>5

LEMMA StartStart == ASSUME StartInv, NEW p \in Process, start(p) PROVE StartInv'
<1> USE DEF StartInv
<1>1. main[p] = "down" /\ schema' = schema /\ checked' = checked
  BY DEF start
<1>11. /\ DOMAIN main' = Process /\ DOMAIN statement' = Process /\ DOMAIN running' = Process
       /\ \A q \in Process \ {p} : main'[q] = main[q] /\ statement'[q] = statement[q] /\ running'[q] = running[q]
  BY DEF start, Goes, StartTypeOK
<1>12. \/ main'[p] \in Underway /\ statement'[p] = 1 /\ running'[p] = running[p]
       \/ main'[p] \in Aside /\ statement'[p] = statement[p] /\ running'[p] = {"api"} /\ round' = round
  BY DEF start, Goes, StartTypeOK, Underway, Aside
<1>2. statement[p] = 0 /\ checked[p] = {}
  BY <1>1 DEF InStep, Migrating
<1>3. interrupted' = interrupted
  BY DEF start
<1>4. round' \in {"on", "through", "disturbed"}
  BY DEF start, StartTypeOK
<1>5. StartTypeOK'
  BY <1>1, <1>11, <1>12, <1>4 DEF StartTypeOK, Step
<1>6. InStep'
  <2> SUFFICES ASSUME NEW q \in Process
               PROVE  /\ Migrating(q)' <=> statement'[q] # 0
                      /\ checked'[q] # {} => /\ statement'[q] # 0 /\ Guarded(Migrations[statement'[q]].kind)
                                             /\ checked'[q] \subseteq Migrations[statement'[q]].makes
    BY DEF InStep
  <2>1. CASE q # p
    BY <2>1, <1>1, <1>11 DEF InStep, Migrating
  <2>2. CASE q = p
    <3>1. (main'[p] \in Underway => Migrating(p)') /\ (main'[p] \in Aside => ~ Migrating(p)')
      BY DEF Underway, Aside, Migrating
    <3> QED
      BY <2>2, <3>1, <1>1, <1>12, <1>2
  <2> QED
    BY <2>1, <2>2
<1>7. PastIsMade'
  <2>1. Made(1 - 1) = {}
    BY SchemaIsMade
  <2> QED
    BY <2>1, <1>1, <1>11, <1>12, <1>2 DEF PastIsMade
<1>8. TasksAreLate'
  <2>1. main'[p] \notin {"spawn", "relay", "bind"}
    BY <1>12 DEF Underway, Aside
  <2> QED
    BY <2>1, <1>1, <1>11, <1>12 DEF TasksAreLate
<1>9. TriggerIsMissed'
  BY <1>1, <1>11, <1>12, <1>2, <1>3 DEF TriggerIsMissed
<1>10. OneIsFree'
  <2>1. CASE main'[p] \in Underway
    <3>1. Migrating(p)'
      BY <2>1 DEF Migrating, Underway
    <3>2. statement'[p] = 1
      BY <2>1, <1>12 DEF Underway, Aside
    <3>3. Free(p)'
      BY <3>1, <3>2, <1>1, <1>2 DEF Free
    <3> QED
      BY <3>3 DEF OneIsFree
  <2>2. CASE main'[p] \notin Underway /\ round = "on"
    <3>1. PICK q \in Process : Free(q)
      BY <2>2 DEF OneIsFree
    <3>2. q # p
      BY <3>1, <1>1 DEF Free, Migrating
    <3>3. Free(q)'
      BY <3>1, <3>2, <1>1, <1>11 DEF Free, Migrating
    <3> QED
      BY <3>3 DEF OneIsFree
  <2>3. CASE main'[p] \notin Underway /\ round # "on"
    BY <2>3, <1>12 DEF OneIsFree
  <2> QED
    BY <2>1, <2>2, <2>3
<1> QED
  BY <1>5, <1>6, <1>7, <1>8, <1>9, <1>10

LEMMA StartLook == ASSUME StartInv, NEW p \in Process, look(p) PROVE StartInv'
<1> DEFINE s == statement[p]
<1> USE DEF StartInv
<1>1. \E found : /\ checked' = [checked EXCEPT ![p] = found]
                 /\ found \subseteq Migrations[s].makes /\ Migrations[s].makes \subseteq schema \cup found
                 /\ s # 13 => found \cap schema = {}
  <2>1. CASE s = 13
    BY <2>1, StepOf, Kinds, Makes13 DEF look
  <2>2. CASE s # 13
    <3>1. Migrations[s].kind # "replace"
      BY <2>2, StepOf, Kinds DEF look
    <3>2. checked' = [checked EXCEPT ![p] = Missing(Migrations[s].makes)]
      BY <3>1 DEF look
    <3>3. /\ Missing(Migrations[s].makes) \subseteq Migrations[s].makes
          /\ Migrations[s].makes \subseteq schema \cup Missing(Migrations[s].makes)
          /\ Missing(Migrations[s].makes) \cap schema = {}
      BY DEF Missing
    <3> QED
      BY <3>2, <3>3
  <2> QED
    BY <2>1, <2>2
<1> PICK found : /\ checked' = [checked EXCEPT ![p] = found]
                 /\ found \subseteq Migrations[s].makes /\ Migrations[s].makes \subseteq schema \cup found
                 /\ s # 13 => found \cap schema = {}
  BY <1>1
<1>3. /\ Migrating(p) /\ s \in Step /\ Guarded(Migrations[s].kind) /\ s # 0
      /\ UNCHANGED <<schema, main, statement, running, round>>
  BY StepOf, Kinds, Makes13 DEF look, InStep
<1>2. interrupted' = interrupted
  BY DEF look
<1>4. StartTypeOK'
  BY <1>3, SchemaIsMade DEF StartTypeOK
<1>5. InStep'
  <2>1. \A q \in Process : q # p => checked'[q] = checked[q]
    BY <1>3 DEF StartTypeOK
  <2>2. checked'[p] = found
    BY <1>3 DEF StartTypeOK
  <2> QED
    BY <1>3, <2>1, <2>2 DEF InStep, Migrating
<1>6. PastIsMade'
  BY <1>3 DEF PastIsMade, StartTypeOK
<1>7. TasksAreLate'
  BY <1>3 DEF TasksAreLate
<1>8. TriggerIsMissed'
  BY <1>3, <1>2 DEF TriggerIsMissed
<1>9. OneIsFree'
  <2> SUFFICES ASSUME round = "on" PROVE \E q \in Process : Free(q)'
    BY <1>3 DEF OneIsFree
  <2>1. PICK q \in Process : Free(q)
    BY DEF OneIsFree
  <2>2. checked'[q] = IF q = p THEN found ELSE checked[q]
    BY <1>3 DEF StartTypeOK
  <2>3. Free(q)'
    BY <2>1, <2>2, <1>3 DEF Free, Migrating
  <2> QED
    BY <2>3
<1> QED
  BY <1>4, <1>5, <1>6, <1>7, <1>8, <1>9

LEMMA StartSpawns == ASSUME StartInv, NEW p \in Process,
                            spawn_first(p) \/ spawn_rest(p) \/ bind(p) \/ backfill_ends(p)
                     PROVE StartInv'
<1> USE DEF StartInv
<1>1. /\ UNCHANGED <<schema, statement, checked, round>>
      /\ \/ main' = main
         \/ /\ main[p] \in {"spawn", "relay", "bind"}
            /\ main' \in {[main EXCEPT ![p] = line] : line \in {"relay", "bind", "serve"}}
      /\ \E tasks : running' = [running EXCEPT ![p] = tasks]
      /\ main[p] \in {"spawn", "relay", "bind"} \/ running[p] \ {"api"} # {}
  BY DEF spawn_first, spawn_rest, bind, backfill_ends, Goes
<1>2. interrupted' = interrupted
  BY DEF spawn_first, spawn_rest, bind, backfill_ends
<1>3. \A q \in Process : Migrating(q) <=> Migrating(q)'
  BY <1>1 DEF Migrating, StartTypeOK
<1>4. StartTypeOK'
  BY <1>1 DEF StartTypeOK
<1>5. InStep'
  BY <1>1, <1>3 DEF InStep
<1>6. PastIsMade'
  BY <1>1 DEF PastIsMade
<1>7. TasksAreLate'
  BY <1>1 DEF TasksAreLate
<1>8. TriggerIsMissed'
  BY <1>1, <1>2 DEF TriggerIsMissed
<1>9. OneIsFree'
  BY <1>1, <1>3 DEF OneIsFree, Free
<1> QED
  BY <1>4, <1>5, <1>6, <1>7, <1>8, <1>9

LEMMA StartNext == StartInv /\ [StartupNext]_startVars => StartInv'
<1> SUFFICES ASSUME StartInv, [StartupNext]_startVars PROVE StartInv'
  OBVIOUS
<1>1. CASE UNCHANGED startVars
  BY <1>1 DEF startVars, StartInv, StartTypeOK, InStep, PastIsMade, TasksAreLate,
     TriggerIsMissed,
              OneIsFree, Free, Migrating
<1>2. ASSUME NEW p \in Process, bind_fails(p) PROVE StartInv'
  <2>1. ~ Migrating(p) /\ main[p] # "down" /\ Gone(p) /\ schema' = schema /\ round' = round
    BY <1>2 DEF bind_fails, Migrating
  <2> QED
    BY <2>1, StartGone
<1>3. ASSUME NEW p \in Process, stop(p) PROVE StartInv'
  <2>1. /\ main[p] # "down" /\ Gone(p) /\ schema' = schema
        /\ IF Migrating(p) THEN round' = "disturbed" ELSE round' = round
    BY <1>3 DEF stop, Mishap
  <2> QED
    BY <2>1, StartGone
<1> QED
  BY <1>1, <1>2, <1>3, StartStart, StartLook, StartExecute, StartCommit, StartFails,
     StartSpawns
     DEF StartupNext

LEMMA StartAlways == StartupSpec => []StartInv
BY StartInit, StartNext, PTL DEF StartupSpec

\* Processes that race for one database never all refuse each other (run_migrations has no
\* lock): any number of them, whatever an earlier one left of the schema.
THEOREM OneGetsThrough == StartupSpec => []SomebodyGetsThrough
<1>1. StartInv => SomebodyGetsThrough
  BY DEF StartInv, OneIsFree, Free, SomebodyGetsThrough
<1> QED
  BY <1>1, StartAlways, PTL

\* No task runs over a schema that lacks a table, a column or an index, and a trigger that
\* is missing was lost to a crash between DROP and CREATE, or is about to be there.
THEOREM SchemaStaysWhole == StartupSpec => []SchemaIsWhole
<1>1. StartInv => TasksFindTheirTables
  BY DEF StartInv, TasksAreLate, TasksFindTheirTables
<1>2. StartInv => TriggerSurvivesStarts
  BY BetweenThere, MarkIsLast DEF StartInv, TriggerIsMissed, TriggerSurvivesStarts
<1> QED
  BY <1>1, <1>2, StartAlways, PTL DEF SchemaIsWhole

-----------------------------------------------------------------------------
(* WebSocket                                                               *)

LEMMA OfMessages ==
    /\ \A s \in Seq(Message), m \in Message :
          /\ ToSet(Append(s, m)) = ToSet(s) \cup {m}
          /\ Append(s, m) \in Seq(Message) /\ Append(s, m) # <<>>
    /\ \A s \in Seq(Message) : s # <<>> =>
          /\ ToSet(s) = {Head(s)} \cup ToSet(Tail(s))
          /\ Tail(s) \in Seq(Message) /\ Head(s) \in Message
<1>1. \A s \in Seq(Message), m \in Message : Append(s, m) # <<>>
  BY AppendIsNotEmpty
<1> QED
  BY <1>1, ToSetAppend, ToSetTail

\* Types, and who can have what in hand.
WsSets ==
    /\ incoming \in Seq(Message) /\ inbox \in Seq(Message) /\ buffer \in Seq(Message)
    /\ aired \subseteq Message /\ known \subseteq table /\ requests \in Nat
    /\ client \in {"away", "history", "open", "gone"}
    /\ forward = "recv" => held = NoMessage
    /\ client # "open" => forward = "recv"
    /\ client = "away" => requests = 0
    /\ handed => incoming # <<>>

\* A client that asked for nothing more has, or is on its way to get, what was broadcast.
Carried ==
    client \in {"history", "open"} /\ subscribed /\ requests = 0 /\ ~ lagged =>
        \A m \in aired : matches(filter, m) => m \in given \cup {held} \cup ToSet(buffer)

\* And what was stored before.
Recalled ==
    client = "open" /\ subscribed /\ requests = 0 /\ ~ missing =>
        known \cap HistoryOf(filter) \subseteq past

\* What is about to be sent matches the filter, which is locked until it is.
Locked == (forward = "send" => matches(filter, held)) /\ ~ stray

\* No second message follows an Unsubscribe: the first one ends the step that had read
\* `subscribed` before it was cleared.
Hushed ==
    /\ unsubscribing => ~ subscribed /\ requests # 0
    /\ unasked = 0 \/ (unasked = 1 /\ forward = "recv" /\ ~ subscribed)
    /\ quiet => ~ subscribed
    /\ ~ quiet => unasked = 0

WsInv == WsSets /\ (client = "away" => aired = {} /\ ~ quiet) /\ Carried /\ Recalled /\ Locked /\ Hushed

LEMMA WsStart == WsInit => WsInv
<1> SUFFICES ASSUME WsInit PROVE WsInv
  OBVIOUS
<1> QED
  BY DEF WsInit, WsInv, WsSets, Carried, Recalled, Locked, Hushed, ToSet

\* The messages of others reach the database, and the queue, away from the client.
LEMMA WsElsewhere == ASSUME WsInv, WsSets', table \subseteq table',
                            UNCHANGED <<client, wsShared, wsTask, requests, wsHistory>>
                     PROVE  WsInv'
<1> USE DEF WsInv, wsShared, wsTask, wsHistory
<1>1. Carried'
  BY DEF Carried, matches
<1>2. Recalled'
  BY DEF WsSets, Recalled, HistoryOf
<1>3. Locked' /\ Hushed'
  BY DEF Locked, matches, Hushed
<1> QED
  BY <1>1, <1>2, <1>3

LEMMA WsQueued == ASSUME WsInv,
                         \/ message_stored \/ message_published
                         \/ run_consumer \/ consumer_sends \/ consumer_acks \/ consumer_lost
                  PROVE  WsInv'
<1> USE DEF WsInv
<1>1. table \subseteq table' /\ UNCHANGED <<client, wsShared, wsTask, requests, wsHistory>>
  BY DEF message_stored, message_published, run_consumer, consumer_sends, consumer_acks,
     consumer_lost
<1>2. WsSets'
  <2> USE DEF WsSets, wsRelay, wsTask, wsHistory
  <2>1. CASE message_stored
    BY <2>1 DEF message_stored
  <2>2. CASE message_published
    BY <2>2, OfMessages DEF message_published
  <2>3. CASE run_consumer \/ consumer_lost
    BY <2>3 DEF run_consumer, consumer_lost
  <2>4. CASE consumer_sends
    BY <2>4, OfMessages DEF consumer_sends
  <2>5. CASE consumer_acks
    BY <2>5, OfMessages DEF consumer_acks
  <2> QED
    BY <2>1, <2>2, <2>3, <2>4, <2>5
<1> QED
  BY <1>1, <1>2, WsElsewhere

\* Only a channel that overflows loses a message, and then the client is told.
LEMMA WsBroadcast == ASSUME WsInv, connect_to_rabbitmq PROVE WsInv'
<1> USE DEF WsInv, wsRelay, wsShared, wsTask, wsHistory
<1> DEFINE m == Head(inbox)
           room == IF Len(buffer) = Capacity THEN Tail(buffer) ELSE buffer
<1>1. m \in Message /\ inbox' \in Seq(Message)
  BY OfMessages DEF connect_to_rabbitmq, WsSets
<1>2. /\ buffer' = IF Receiving THEN Append(room, m) ELSE buffer
      /\ aired' = IF Receiving THEN aired \cup {m} ELSE aired
      /\ UNCHANGED <<incoming, wired, handed, table, client, wsShared, forward, held, requests,
                     losses, past, missing, known, given, quiet, unasked, stray>>
  BY DEF connect_to_rabbitmq, Receiving
<1>3. Capacity # 0
  BY WebSocketAssumption
<1>4. room \in Seq(Message)
  <2>1. buffer = <<>> => Len(buffer) # Capacity
    BY <1>3
  <2> QED
    BY <2>1, OfMessages DEF WsSets
<1>5. lagged' = (lagged \/ (Receiving /\ Len(buffer) = Capacity))
  BY DEF connect_to_rabbitmq
<1>6. WsSets'
  BY <1>1, <1>2, <1>4, OfMessages DEF WsSets
<1>7. Carried'
  <2> SUFFICES ASSUME client \in {"history", "open"}, subscribed, requests = 0, ~ lagged',
                      NEW n \in aired', matches(filter, n)
               PROVE  n \in given \cup {held} \cup ToSet(buffer')
    BY <1>2 DEF Carried, matches
  <2>1. Receiving
    BY DEF Receiving
  <2>2. ~ lagged /\ Len(buffer) # Capacity
    BY <1>5, <2>1, Zenon
  <2>3. ToSet(buffer') = ToSet(buffer) \cup {m}
    BY <1>1, <1>2, <2>1, <2>2, OfMessages DEF WsSets
  <2>4. n \in aired \/ n = m
    BY <1>2
  <2> QED
    BY <2>2, <2>3, <2>4 DEF Carried
<1>8. Recalled'
  BY <1>2 DEF Recalled, HistoryOf
<1>9. Locked'
  BY <1>2 DEF Locked, matches
<1>10. Hushed'
  BY <1>2 DEF Hushed
<1>11. (client = "away" => aired = {} /\ ~ quiet)'
  BY <1>2 DEF Receiving
<1> QED
  BY <1>6, <1>7, <1>8, <1>9, <1>10, <1>11

LEMMA WsConnects == ASSUME WsInv, NEW f \in Filter \cup {Everything}, handle_socket(f) PROVE WsInv'
<1> USE DEF handle_socket, WsInv, wsRelay, wsShared, wsTask, wsHistory
<1>1. WsSets'
  BY DEF WsSets
<1>2. Carried'
  BY DEF WsSets, Carried, matches
<1>3. Recalled'
  BY DEF WsSets, Recalled, HistoryOf
<1>4. Locked'
  BY DEF WsSets, Locked, matches
<1>5. Hushed'
  BY DEF WsSets, Hushed
<1>6. (client = "away" => aired = {} /\ ~ quiet)'
  BY DEF WsSets
<1> QED
  BY <1>1, <1>2, <1>3, <1>4, <1>5, <1>6

LEMMA WsHistory == ASSUME WsInv, history_query \/ history_query_fails PROVE WsInv'
<1> USE DEF history_query, history_query_fails, WsInv, wsRelay, wsShared, wsTask, wsHistory
<1>1. WsSets'
  BY DEF WsSets
<1>2. Carried'
  BY DEF WsSets, Carried, matches
<1>3. Recalled'
  BY DEF WsSets, Recalled, HistoryOf
<1>4. Locked'
  BY DEF WsSets, Locked, matches
<1>5. Hushed'
  BY DEF WsSets, Hushed
<1>6. (client = "away" => aired = {} /\ ~ quiet)'
  BY DEF WsSets
<1> QED
  BY <1>1, <1>2, <1>3, <1>4, <1>5, <1>6

LEMMA WsReceives == ASSUME WsInv, forward_recv PROVE WsInv'
<1> USE DEF forward_recv, WsInv, wsRelay, wsShared, wsTask, wsHistory
<1>1. WsSets'
  BY OfMessages DEF WsSets
<1>2. Carried'
  <2> SUFFICES ASSUME subscribed, requests = 0, ~ lagged, NEW n \in aired, matches(filter, n)
               PROVE  n \in given \cup {held'} \cup ToSet(buffer')
    BY DEF Carried, matches
  <2>1. n \in given \cup {held} \cup ToSet(buffer)
    BY DEF Carried
  <2>2. n # held
    BY WebSocketAssumption DEF WsSets
  <2>3. ToSet(buffer) = {held'} \cup ToSet(buffer')
    BY OfMessages DEF WsSets
  <2> QED
    BY <2>1, <2>2, <2>3
<1>3. Recalled'
  BY DEF WsSets, Recalled, HistoryOf
<1>4. Locked'
  BY OfMessages DEF WsSets, Locked, matches
<1>5. Hushed'
  <2>1. CASE subscribed
    <3>1. unasked = 0 /\ ~ quiet /\ ~ unsubscribing
      BY <2>1 DEF Hushed
    <3> QED
      BY <2>1, <3>1 DEF Hushed
  <2>2. CASE ~ subscribed
    BY <2>2 DEF Hushed
  <2> QED
    BY <2>1, <2>2
<1>6. (client = "away" => aired = {} /\ ~ quiet)'
  BY DEF WsSets
<1> QED
  BY <1>1, <1>2, <1>3, <1>4, <1>5, <1>6

LEMMA WsMatches == ASSUME WsInv, forward_match PROVE WsInv'
<1> USE DEF forward_match, WsInv, wsRelay, wsShared, wsTask, wsHistory
<1>1. WsSets'
  BY DEF WsSets
<1>2. Carried'
  BY DEF WsSets, Carried, matches
<1>3. Recalled'
  BY DEF WsSets, Recalled, HistoryOf
<1>4. Locked'
  BY DEF WsSets, Locked, matches
<1>5. Hushed'
  BY DEF WsSets, Hushed
<1>6. (client = "away" => aired = {} /\ ~ quiet)'
  BY DEF WsSets
<1> QED
  BY <1>1, <1>2, <1>3, <1>4, <1>5, <1>6

LEMMA WsSends == ASSUME WsInv, forward_send PROVE WsInv'
<1> USE DEF forward_send, WsInv, wsRelay, wsShared, wsTask, wsHistory
<1>1. WsSets'
  BY DEF WsSets
<1>2. Carried'
  BY DEF WsSets, Carried, matches
<1>3. Recalled'
  BY DEF WsSets, Recalled, HistoryOf
<1>4. Locked'
  BY DEF WsSets, Locked, matches
<1>5. Hushed'
  BY DEF WsSets, Hushed
<1>6. (client = "away" => aired = {} /\ ~ quiet)'
  BY DEF WsSets
<1> QED
  BY <1>1, <1>2, <1>3, <1>4, <1>5, <1>6

LEMMA WsAsks == ASSUME WsInv, Asks PROVE WsInv'
<1> USE DEF Asks, Subscribe, Update, Unsubscribe, Requested, FilterIsFree, WsInv, wsRelay,
   wsShared, wsTask, wsHistory
<1>0. requests' # 0
  BY DEF WsSets
<1>1. WsSets'
  BY DEF WsSets
<1>2. Carried'
  BY <1>0 DEF Carried
<1>3. Recalled'
  BY <1>0 DEF Recalled
<1>4. Locked'
  BY DEF WsSets, Locked, matches
<1>5. Hushed'
  BY DEF WsSets, Hushed
<1>6. (client = "away" => aired = {} /\ ~ quiet)'
  BY DEF WsSets
<1> QED
  BY <1>1, <1>2, <1>3, <1>4, <1>5, <1>6

LEMMA WsUnsubscribed == ASSUME WsInv, Unsubscribed PROVE WsInv'
<1> USE DEF Unsubscribed, FilterIsFree, WsInv, wsRelay, wsShared, wsTask, wsHistory
<1>0. requests' # 0 /\ ~ subscribed'
  BY DEF Hushed
<1>1. WsSets'
  BY DEF WsSets
<1>2. Carried'
  BY <1>0 DEF Carried
<1>3. Recalled'
  BY <1>0 DEF Recalled
<1>4. Locked'
  BY DEF WsSets, Locked, matches
<1>5. Hushed'
  <2>1. unasked = 0 \/ (unasked = 1 /\ forward = "recv")
    BY DEF Hushed
  <2> QED
    BY <1>0, <2>1 DEF Hushed
<1>6. (client = "away" => aired = {} /\ ~ quiet)'
  BY DEF WsSets
<1> QED
  BY <1>1, <1>2, <1>3, <1>4, <1>5, <1>6

LEMMA WsLeaves == ASSUME WsInv, disconnect PROVE WsInv'
<1> USE DEF disconnect, WsInv, wsRelay, wsShared, wsTask, wsHistory
<1>1. WsSets'
  BY DEF WsSets
<1>2. Carried'
  BY DEF WsSets, Carried, matches
<1>3. Recalled'
  BY DEF WsSets, Recalled, HistoryOf
<1>4. Locked'
  BY DEF WsSets, Locked, matches
<1>5. Hushed'
  BY DEF WsSets, Hushed
<1>6. (client = "away" => aired = {} /\ ~ quiet)'
  BY DEF WsSets
<1> QED
  BY <1>1, <1>2, <1>3, <1>4, <1>5, <1>6

LEMMA WsStep == WsInv /\ [WsNext]_wsVars => WsInv'
<1> SUFFICES ASSUME WsInv, [WsNext]_wsVars PROVE WsInv'
  OBVIOUS
<1>1. CASE UNCHANGED wsVars
  BY <1>1 DEF wsVars, WsInv, WsSets, Carried, Recalled, HistoryOf, Locked, matches,
     Hushed, wsRelay,
              wsShared, wsTask, wsHistory
<1> QED
  BY <1>1, WsQueued, WsBroadcast, WsConnects, WsHistory, WsReceives, WsMatches,
     WsSends, WsAsks, WsUnsubscribed, WsLeaves DEF WsNext

\* Whatever it asks for and whoever else publishes, a client misses nothing it asked for,
\* is given nothing its filter does not match, and after Unsubscribed at most the one
\* message under way: for channels of any capacity and any number of requests.
THEOREM ClientsAreServed == WsSpec => []ClientIsServed
<1>1. WsInv => ClientIsServed
  BY DEF WsInv, WsSets, Carried, Recalled, Locked, Hushed, ClientIsServed, NothingIsMissed,
         UnsubscribedIsQuiet, ForwardedMatches
<1> QED
  BY <1>1, WsStart, WsStep, PTL DEF WsSpec

-----------------------------------------------------------------------------
(* P2pConsumer                                                             *)

\* What became of a copy that needs no second delivery, or gets none.
Lost == tried \cup Garbage \cup failed \cup severed

Queued ==
    /\ broker \in Seq(Copy) /\ dedup_cache \in Seq(Copy)
    /\ ~ up => consumer = "next"
    /\ consumer # "next" => broker # <<>>
    /\ consumer \in {"next", "insert", "ack"}

\* The cache holds no copy that was not dealt with, but the one that is about to be
\* inserted: it is why the answer of the cache is enough to acknowledge.
P2pInv ==
    /\ Queued
    /\ acked \subseteq Lost
    /\ consumer = "ack" => First \in Lost
    /\ ToSet(dedup_cache) \subseteq Lost \cup (IF consumer = "insert" THEN {First} ELSE {})

LEMMA P2pStart == P2pInit => P2pInv
BY DEF P2pInit, P2pInv, Queued, Lost, ToSet

LEMMA OfCopies ==
    /\ \A s \in Seq(Copy), c \in Copy :
          /\ Append(s, c) \in Seq(Copy) /\ Append(s, c) # <<>>
          /\ ToSet(Append(s, c)) = ToSet(s) \cup {c}
          /\ s # <<>> => Head(Append(s, c)) = Head(s)
    /\ \A s \in Seq(Copy) : s # <<>> =>
          /\ Head(s) \in Copy /\ Tail(s) \in Seq(Copy)
          /\ ToSet(Tail(s)) \subseteq ToSet(s)
<1>0. \A s \in Seq(Copy), c \in Copy : Append(s, c) # <<>>
  BY AppendIsNotEmpty
<1>1. ASSUME NEW s \in Seq(Copy), NEW c \in Copy
      PROVE  /\ Append(s, c) \in Seq(Copy) /\ Append(s, c) # <<>>
             /\ s # <<>> => Head(Append(s, c)) = Head(s)
  <2>1. Append(s, c) \in Seq(Copy) /\ Append(s, c) # <<>>
    BY <1>0
  <2>2. s # <<>> => Append(s, c)[1] = s[1]
    <3>1. s # <<>> => Len(s) \in Nat \ {0}
      BY EmptySeq
    <3>2. \A i \in 1..Len(s) : Append(s, c)[i] = s[i]
      OBVIOUS
    <3> QED
      BY <3>1, <3>2
  <2>3. s # <<>> => Head(s) = s[1]
    OBVIOUS
  <2> DEFINE t == Append(s, c)
  <2> HIDE DEF t
  <2>4. t \in Seq(Copy) /\ t # <<>>
    BY <2>1 DEF t
  <2>5. Head(t) = t[1]
    BY <2>4
  <2> QED
    BY <2>1, <2>2, <2>3, <2>5 DEF t
<1> QED
  BY <1>1, ToSetTail, ToSetAppend

\* The cache at its limit forgets a copy, and never adds another.
LEMMA RememberedKeeps == ASSUME Queued, broker # <<>>
    PROVE  Remembered \in Seq(Copy) /\ ToSet(Remembered) \subseteq ToSet(dedup_cache) \cup {First}
<1> DEFINE kept == RemoveFirst(dedup_cache, First)
           room == IF Len(kept) = CacheSize THEN Tail(kept) ELSE kept
<1>1. kept \in Seq(Copy) /\ ToSet(kept) \subseteq ToSet(dedup_cache)
  BY RemoveFirstKeeps DEF Queued
<1> HIDE DEF kept
<1>2. Len(kept) = CacheSize => kept # <<>>
  BY <1>1, P2pAssumption
<1>3. room \in Seq(Copy) /\ ToSet(room) \subseteq ToSet(kept)
  BY <1>1, <1>2, OfCopies
<1>4. First \in Copy
  BY OfCopies DEF Queued, First
<1>5. Remembered = Append(room, First)
  BY DEF Remembered, kept
<1> HIDE DEF room
<1> QED
  BY <1>1, <1>3, <1>4, <1>5, OfCopies

LEMMA P2pStep == P2pInv /\ [P2pNext]_p2pVars => P2pInv'
<1> SUFFICES ASSUME P2pInv, [P2pNext]_p2pVars PROVE P2pInv'
  OBVIOUS
<1> USE DEF P2pInv, Queued, Lost, p2pHistory, Working, First
<1>1. CASE gossip_arrives
  BY <1>1, OfCopies DEF gossip_arrives
<1>2. CASE run_consumer_loop
  BY <1>2 DEF run_consumer_loop
<1>3. CASE process_message
  <2>1. CASE First \in Garbage
    BY <1>3, <2>1 DEF process_message
  <2>2. CASE First \notin Garbage /\ seen_before
    BY <1>3, <2>2, RememberedKeeps DEF process_message, seen_before
  <2>3. CASE First \notin Garbage /\ ~ seen_before
    BY <1>3, <2>3, RememberedKeeps DEF process_message
  <2> QED
    BY <2>1, <2>2, <2>3
<1>4. CASE insert_delivery
  BY <1>4 DEF insert_delivery, Inserted
<1>5. CASE insert_delivery_fails
  BY <1>5 DEF insert_delivery_fails
<1>6. CASE ack
  BY <1>6, OfCopies DEF ack
<1>7. CASE stream_ends
  BY <1>7 DEF stream_ends, Inserted
<1>8. CASE p2p_restart
  BY <1>8 DEF p2p_restart, ToSet
<1>9. CASE row_processed
  BY <1>9 DEF row_processed
<1>10. CASE UNCHANGED p2pVars
  BY <1>10 DEF p2pVars
<1> QED
  BY <1>1, <1>2, <1>3, <1>4, <1>5, <1>6, <1>7, <1>8, <1>9, <1>10 DEF P2pNext

\* A message is acknowledged only after it was brought to the table, but for an INSERT that
\* failed or was cut: for caches of any size and any number of copies and restarts.
THEOREM NothingAckedIsLost == P2pSpec => []AckedWasInserted
<1>1. P2pInv => AckedWasInserted
  BY DEF P2pInv, Lost, AckedWasInserted
<1> QED
  BY <1>1, P2pStart, P2pStep, PTL DEF P2pSpec

-----------------------------------------------------------------------------
(* The backfill (Backfill): what a pass has passed                         *)

Steps == DOMAIN Order

LEMMA StepsAre ==
    Steps = {"check", "POST", "POST cursor", "AGGREGATE", "AGGREGATE cursor", "INSTANCE",
             "PROGRAM", "disable", "denorm", "truncate", "rebuild", "enable", "ended"}
BY DEF Order, Steps

\* The order of the steps, as numbers.
LEMMA OrderIs ==
    /\ Order["check"] = 0 /\ Order["POST"] = 1 /\ Order["POST cursor"] = 1
    /\ Order["AGGREGATE"] = 2 /\ Order["AGGREGATE cursor"] = 2 /\ Order["INSTANCE"] = 3
    /\ Order["PROGRAM"] = 4 /\ Order["disable"] = 5 /\ Order["denorm"] = 6
    /\ Order["truncate"] = 7 /\ Order["rebuild"] = 8 /\ Order["enable"] = 9
    /\ Order["ended"] = 10
BY DEF Order, Steps

LEMMA FollowingIs ==
    /\ Following("POST") = "AGGREGATE" /\ Following("AGGREGATE") = "INSTANCE"
    /\ Following("INSTANCE") = "PROGRAM" /\ Following("PROGRAM") = "disable"
    /\ CursorOf("POST") = "POST cursor" /\ CursorOf("AGGREGATE") = "AGGREGATE cursor"
    /\ Walked = {"POST", "AGGREGATE"} /\ Swept = {"INSTANCE", "PROGRAM"}
BY DEF Following, CursorOf, Walked, Swept

\* Only the walks have a cursor.
Walking == {"POST", "POST cursor", "AGGREGATE", "AGGREGATE cursor", "denorm"}

BackfillTypeOK ==
    /\ stored \subseteq Letter /\ IsFiniteSet(stored)
    /\ owned \subseteq stored
    /\ at \in Steps /\ cursor \in Nat
    /\ at \notin Walking => cursor = 0
    /\ stood \subseteq stored /\ \A m \in stood : Body[m] = "good"

\* What ORDER BY time LIMIT n returns.
LEMMA FirstRowsAre ==
    ASSUME NEW due, IsFiniteSet(due), NEW w \in FirstRows(due)
    PROVE  /\ w \subseteq due /\ IsFiniteSet(w)
           /\ Cardinality(w) \in Nat /\ Cardinality(w) <= BatchSize
           /\ w # due => Cardinality(w) = BatchSize
           /\ \A m \in w, n \in due \ w : SentAt[m] <= SentAt[n]
<1>1. /\ w \subseteq due
      /\ Cardinality(w) = IF Cardinality(due) < BatchSize THEN Cardinality(due) ELSE BatchSize
      /\ \A m \in w, n \in due \ w : SentAt[m] <= SentAt[n]
  BY DEF FirstRows
<1>2. /\ IsFiniteSet(w) /\ Cardinality(w) <= Cardinality(due)
      /\ Cardinality(due) = Cardinality(w) => due = w
  BY <1>1, FS_Subset
<1>3. Cardinality(w) \in Nat /\ Cardinality(due) \in Nat /\ BatchSize \in Nat
  BY <1>2, FS_CardinalityType, BackfillAssumption
<1> QED  BY <1>1, <1>2, <1>3

\* Finitely many rows have a last time.
LEMMA TimesAreBounded ==
    ASSUME NEW w \in SUBSET Letter, IsFiniteSet(w)
    PROVE  \E b \in Nat : \A m \in w : SentAt[m] <= b
<1> DEFINE Bounded(T) == \E b \in Nat : \A m \in T : SentAt[m] <= b
           Bad == {k \in Nat : \E T \in SUBSET w : Cardinality(T) = k /\ ~ Bounded(T)}
<1>1. ASSUME ~ Bounded(w) PROVE FALSE
  <2>1. Cardinality(w) \in Bad
    BY <1>1, FS_CardinalityType
  <2>2. PICK k \in Bad : \A j \in Bad : k <= j
    <3> HIDE DEF Bad
    <3>1. Bad \in SUBSET Nat
      BY DEF Bad
    <3> QED  BY <2>1, <3>1, Least
  <2>3. PICK T \in SUBSET w : Cardinality(T) = k /\ ~ Bounded(T)
    BY <2>2
  <2>4. T # {}
    BY <2>3
  <2>5. PICK x \in T : TRUE
    BY <2>4
  <2>6. IsFiniteSet(T) /\ k \in Nat
    BY <2>2, FS_Subset
  <2>7. Cardinality(T \ {x}) = k - 1
    BY <2>3, <2>5, <2>6, FS_RemoveElement
  <2>8. k - 1 \in Nat
    <3>1. k # 0
      BY <2>3, <2>4, <2>6, FS_EmptySet
    <3> QED  BY <2>6, <3>1
  <2>9. Bounded(T \ {x})
    <3>1. k - 1 \notin Bad
      BY <2>2, <2>6
    <3> QED  BY <2>7, <2>8, <3>1
  <2>10. PICK b \in Nat : \A m \in T \ {x} : SentAt[m] <= b
    BY <2>9
  <2>11. SentAt \in [Letter -> Nat \ {0}] /\ T \subseteq Letter
    BY BackfillAssumption
  <2>12. \A m \in T : SentAt[m] <= b + SentAt[x]
    BY <2>5, <2>10, <2>11
  <2>13. b + SentAt[x] \in Nat
    BY <2>5, <2>10, <2>11
  <2> QED  BY <2>3, <2>12, <2>13
<1> QED  BY <1>1

LEMMA LastTimeIs ==
    ASSUME NEW w \in SUBSET Letter, IsFiniteSet(w), w # {}
    PROVE  /\ \E m \in w : LastTime(w) = SentAt[m]
           /\ \A m \in w : SentAt[m] <= LastTime(w)
<1> DEFINE Upper == {b \in Nat : \A m \in w : SentAt[m] <= b}
<1>1. SentAt \in [Letter -> Nat \ {0}]
  BY BackfillAssumption
<1>2. PICK b \in Upper : \A c \in Upper : b <= c
  <2>1. Upper \in SUBSET Nat /\ Upper # {}
    BY TimesAreBounded
  <2> HIDE DEF Upper
  <2> QED  BY <2>1, Least
<1>3. \E m \in w : SentAt[m] = b
  <2> SUFFICES ASSUME \A m \in w : SentAt[m] # b PROVE FALSE
    OBVIOUS
  <2>1. \A m \in w : SentAt[m] \in Nat \ {0} /\ SentAt[m] <= b - 1
    BY <1>1, <1>2
  <2>2. b - 1 \in Nat
    BY <1>2, <2>1
  <2>3. b - 1 \in Upper
    BY <2>1, <2>2
  <2> QED  BY <1>2, <2>3
<1>4. \E t \in {SentAt[m] : m \in w} : \A m \in w : SentAt[m] <= t
  BY <1>2, <1>3
<1>5. /\ LastTime(w) \in {SentAt[m] : m \in w}
      /\ \A m \in w : SentAt[m] <= LastTime(w)
  BY <1>4 DEF LastTime
<1> QED  BY <1>5

\* A full batch of rows after the cursor ends after it.
LEMMA BatchEndsLater ==
    ASSUME BackfillTypeOK, NEW due \in SUBSET stored, \A m \in due : After(m),
           NEW w \in FirstRows(due), ~ (Cardinality(w) < BatchSize)
    PROVE  /\ LastTime(w) \in Nat /\ LastTime(w) > cursor
           /\ \E m \in w : LastTime(w) = SentAt[m]
           /\ \A m \in w : SentAt[m] <= LastTime(w)
<1>1. /\ IsFiniteSet(due) /\ due \subseteq Letter
  BY FS_Subset DEF BackfillTypeOK
<1>2. w \subseteq due /\ IsFiniteSet(w) /\ Cardinality(w) \in Nat
  BY <1>1, FirstRowsAre
<1>3. w # {}
  BY <1>2, FS_EmptySet, BackfillAssumption
<1>4. /\ \E m \in w : LastTime(w) = SentAt[m]
      /\ \A m \in w : SentAt[m] <= LastTime(w)
  BY <1>1, <1>2, <1>3, LastTimeIs
<1> QED  BY <1>1, <1>2, <1>4, BackfillAssumption DEF After

LEMMA BackfillTypeNext == BackfillTypeOK /\ [BackfillNext]_backfillVars => BackfillTypeOK'
<1> SUFFICES ASSUME BackfillTypeOK, [BackfillNext]_backfillVars PROVE BackfillTypeOK'
  OBVIOUS
<1> USE DEF BackfillTypeOK, rowsVars, taskVars, passVars, Proceed, Walking
<1>0. /\ Following("POST") = "AGGREGATE" /\ Following("AGGREGATE") = "INSTANCE"
      /\ Following("INSTANCE") = "PROGRAM" /\ Following("PROGRAM") = "disable"
      /\ CursorOf("POST") = "POST cursor" /\ CursorOf("AGGREGATE") = "AGGREGATE cursor"
      /\ Walked = {"POST", "AGGREGATE"} /\ Swept = {"INSTANCE", "PROGRAM"}
      /\ Steps = {"check", "POST", "POST cursor", "AGGREGATE", "AGGREGATE cursor", "INSTANCE",
                "PROGRAM", "disable", "denorm", "truncate", "rebuild", "enable", "ended"}
  BY FollowingIs, StepsAre
<1>1. ASSUME NEW m \in Letter, batch_insert_bare(m) PROVE BackfillTypeOK'
  BY <1>1, FS_AddElement DEF batch_insert_bare
<1>2. ASSUME NEW m \in Letter, \/ queue_bare(m) \/ queue_gossip(m) \/ reject_letter(m)
                               \/ drop_duplicate(m) \/ forget_derived(m)
      PROVE BackfillTypeOK'
  BY <1>2 DEF queue_bare, queue_gossip, reject_letter, drop_duplicate, forget_derived
<1>3. ASSUME NEW m \in Letter, process_letter(m) PROVE BackfillTypeOK'
  BY <1>3, FS_AddElement DEF process_letter
<1>4. ASSUME NEW m \in Letter, forget_letter(m) PROVE BackfillTypeOK'
  BY <1>4, FS_RemoveElement DEF forget_letter
<1>5. CASE check_missing \/ check_fails
  BY <1>0, <1>5 DEF check_missing, check_fails
<1>6. ASSUME NEW type \in Walked, batch_derive(type) PROVE BackfillTypeOK'
  BY <1>0, <1>6 DEF batch_derive
<1>7. ASSUME NEW type \in Walked, batch_cursor(type) PROVE BackfillTypeOK'
  <2>1. PICK w \in FirstRows(CursorRows(type)) :
          IF Cardinality(w) < BatchSize
          THEN cursor' = 0 /\ at' = Following(type)
          ELSE cursor' = LastTime(w) /\ at' = type
    BY <1>7 DEF batch_cursor
  <2>2. UNCHANGED <<rowsVars, stood>>
    BY <1>7 DEF batch_cursor
  <2>3. cursor' \in Nat /\ (cursor' = 0 \/ at' \in Walking)
    <3>1. CASE Cardinality(w) < BatchSize
      <4>1. cursor' = 0
        BY <2>1, <3>1, Zenon
      <4> QED  BY ONLY <4>1
    <3>2. CASE ~ (Cardinality(w) < BatchSize)
      <4>1. CursorRows(type) \in SUBSET stored /\ \A m \in CursorRows(type) : After(m)
        BY DEF CursorRows
      <4> QED  BY <1>0, <2>1, <3>2, <4>1, BatchEndsLater
    <3> QED  BY <3>1, <3>2
  <2>4. at' \in Steps
    BY <1>0, <2>1
  <2> QED  BY <2>2, <2>3, <2>4
<1>8. ASSUME NEW type \in Swept, sweep(type) PROVE BackfillTypeOK'
  BY <1>0, <1>8 DEF sweep
<1>9. ASSUME NEW type \in Walked \cup Swept, backfill_fails(type) PROVE BackfillTypeOK'
  BY <1>0, <1>9 DEF backfill_fails
<1>10. CASE disable_trigger \/ disable_fails
  BY <1>0, <1>10 DEF disable_trigger, disable_fails
<1>11. CASE denorm_batch
  <2> DEFINE due == {m \in NoOwner : After(m)}
  <2>1. PICK w \in FirstRows(due) :
          /\ owned' = owned \cup {m \in w : Body[m] = "good"}
          /\ IF Cardinality(w) < BatchSize
             THEN cursor' = 0 /\ at' = "truncate"
             ELSE cursor' = LastTime(w) /\ at' = "denorm"
    BY <1>11 DEF denorm_batch
  <2>2. UNCHANGED <<stored, stood>>
    BY <1>11 DEF denorm_batch
  <2>3. due \in SUBSET stored /\ \A m \in due : After(m)
    BY DEF NoOwner
  <2> HIDE DEF due
  <2>4. w \subseteq due
    BY DEF FirstRows
  <2>5. cursor' \in Nat /\ (cursor' = 0 \/ at' \in Walking)
    <3>1. CASE Cardinality(w) < BatchSize
      <4>1. cursor' = 0
        BY <2>1, <3>1, Zenon
      <4> QED  BY ONLY <4>1
    <3>2. CASE ~ (Cardinality(w) < BatchSize)
      BY <2>1, <2>3, <3>2, BatchEndsLater
    <3> QED  BY <3>1, <3>2
  <2>6. at' \in Steps
    BY <1>0, <2>1
  <2> QED  BY <2>1, <2>2, <2>3, <2>4, <2>5, <2>6
<1>12. CASE denorm_fails
  BY <1>0, <1>12 DEF denorm_fails, DenormErrs
<1>13. CASE truncate_counts
  BY <1>0, <1>13 DEF truncate_counts
<1>14. CASE rebuild_counts
  BY <1>0, <1>14 DEF rebuild_counts
<1>15. CASE enable_trigger
  BY <1>0, <1>15 DEF enable_trigger
<1>16. CASE restart_node
  BY <1>0, <1>16 DEF restart_node
<1>17. CASE UNCHANGED backfillVars
  BY <1>17 DEF backfillVars
<1>18. ASSUME NEW m \in Letter, denorm_batch_short(m) PROVE BackfillTypeOK'
  <2>1. PICK w \in FirstRows({n \in NoOwner : After(n)}) :
          owned' = (owned \cup {n \in w : Body[n] = "good"}) \ {m}
    BY <1>18 DEF denorm_batch_short
  <2>2. w \subseteq stored
    BY DEF FirstRows, NoOwner
  <2>3. /\ stored' = stored \ {m} /\ stood' = stood \ {m}
        /\ cursor' = 0 /\ at' = "truncate"
    BY <1>18 DEF denorm_batch_short
  <2>4. IsFiniteSet(stored')
    BY <2>3, FS_RemoveElement
  <2> QED  BY <1>0, <2>1, <2>2, <2>3, <2>4
<1> QED
  BY <1>1, <1>2, <1>3, <1>4, <1>5, <1>6, <1>7, <1>8, <1>9, <1>10, <1>11, <1>12, <1>13, <1>14,
     <1>15, <1>16, <1>17, <1>18 DEF BackfillNext, run_startup_backfill

\* Each step comes before those it goes on to.
LEMMA OrderGrows ==
    /\ Order["POST"] > Order["check"] /\ Order["ended"] > Order["check"]
    /\ Order["AGGREGATE"] > Order["POST"] /\ Order["AGGREGATE"] > Order["POST cursor"]
    /\ Order["INSTANCE"] > Order["AGGREGATE"] /\ Order["INSTANCE"] > Order["AGGREGATE cursor"]
    /\ Order["PROGRAM"] > Order["INSTANCE"] /\ Order["disable"] > Order["PROGRAM"]
    /\ Order["denorm"] > Order["disable"] /\ Order["ended"] > Order["disable"]
    /\ Order["truncate"] > Order["denorm"] /\ Order["enable"] > Order["denorm"]
    /\ Order["rebuild"] > Order["truncate"] /\ Order["enable"] > Order["rebuild"]
    /\ Order["ended"] > Order["enable"]
<1>1. Order["POST"] > Order["check"] /\ Order["ended"] > Order["check"]
  BY DEF Order
<1>2. Order["AGGREGATE"] > Order["POST"] /\ Order["AGGREGATE"] > Order["POST cursor"]
  BY DEF Order
<1>3. Order["INSTANCE"] > Order["AGGREGATE"] /\ Order["INSTANCE"] > Order["AGGREGATE cursor"]
  BY DEF Order
<1>4. Order["PROGRAM"] > Order["INSTANCE"] /\ Order["disable"] > Order["PROGRAM"]
  BY DEF Order
<1>5. Order["denorm"] > Order["disable"] /\ Order["ended"] > Order["disable"]
  BY DEF Order
<1>6. Order["truncate"] > Order["denorm"] /\ Order["enable"] > Order["denorm"]
  BY DEF Order
<1>7. Order["rebuild"] > Order["truncate"] /\ Order["enable"] > Order["rebuild"]
  BY DEF Order
<1>8. Order["ended"] > Order["enable"]
  BY DEF Order
<1> QED  BY <1>1, <1>2, <1>3, <1>4, <1>5, <1>6, <1>7, <1>8, Zenon

\* BackfillAdvances: each step of a pass goes on in the order of the steps, or in time.
LEMMA StepAdvances == ASSUME BackfillTypeOK PROVE BackfillAdvances
<1> SUFFICES ASSUME run_startup_backfill PROVE BackfillAdvances
  BY DEF BackfillAdvances
<1> USE FollowingIs DEF Proceed
<1>0. cursor \in Nat
  BY DEF BackfillTypeOK
<1>1. CASE check_missing \/ check_fails
  <2>1. at = "check" /\ at' \in {"ended", "POST"}
    BY <1>1 DEF check_missing, check_fails
  <2> QED  BY OrderGrows, <2>1 DEF BackfillAdvances
<1>2. ASSUME NEW type \in Walked, batch_derive(type) PROVE BackfillAdvances
  <2>1. at = type /\ at' = CursorOf(type) /\ cursor' = cursor
    BY <1>2 DEF batch_derive
  <2>2. Order[CursorOf(type)] = Order[type]
    BY OrderIs
  <2> QED  BY <2>1, <2>2 DEF BackfillAdvances
<1>3. ASSUME NEW type \in Walked, batch_cursor(type) PROVE BackfillAdvances
  <2>1. PICK w \in FirstRows(CursorRows(type)) :
          IF Cardinality(w) < BatchSize
          THEN cursor' = 0 /\ at' = Following(type)
          ELSE cursor' = LastTime(w) /\ at' = type
    BY <1>3 DEF batch_cursor
  <2>2. at = CursorOf(type)
    BY <1>3 DEF batch_cursor
  <2>3. CASE Cardinality(w) < BatchSize
    <3>1. at' = Following(type)
      BY <2>1, <2>3
    <3> QED  BY OrderGrows, <2>2, <3>1 DEF BackfillAdvances
  <2>4. CASE ~ (Cardinality(w) < BatchSize)
    <3>1. CursorRows(type) \in SUBSET stored /\ \A m \in CursorRows(type) : After(m)
      BY DEF CursorRows
    <3>2. cursor' > cursor /\ at' = type
      BY <2>1, <2>4, <3>1, BatchEndsLater
    <3>3. Order[CursorOf(type)] = Order[type]
      BY OrderIs
    <3> QED  BY <2>2, <3>2, <3>3 DEF BackfillAdvances
  <2> QED  BY <2>3, <2>4
<1>4. ASSUME NEW type \in Swept, sweep(type) PROVE BackfillAdvances
  <2>1. at = type /\ at' = Following(type)
    BY <1>4 DEF sweep
  <2> QED  BY OrderGrows, <2>1 DEF BackfillAdvances
<1>5. ASSUME NEW type \in Walked \cup Swept, backfill_fails(type) PROVE BackfillAdvances
  <2>1. at' = Following(type) /\ (at = type \/ (type \in Walked /\ at = CursorOf(type)))
    BY <1>5 DEF backfill_fails
  <2> QED  BY OrderGrows, <2>1 DEF BackfillAdvances
<1>6. CASE disable_trigger \/ disable_fails
  <2>1. at = "disable" /\ at' \in {"denorm", "ended"}
    BY <1>6 DEF disable_trigger, disable_fails
  <2> QED  BY OrderGrows, <2>1 DEF BackfillAdvances
<1>7. CASE denorm_batch
  <2> DEFINE due == {m \in NoOwner : After(m)}
  <2>1. PICK w \in FirstRows(due) :
          IF Cardinality(w) < BatchSize
             THEN cursor' = 0 /\ at' = "truncate"
             ELSE cursor' = LastTime(w) /\ at' = "denorm"
    BY <1>7 DEF denorm_batch
  <2>2. at = "denorm"
    BY <1>7 DEF denorm_batch
  <2>3. due \in SUBSET stored /\ \A m \in due : After(m)
    BY DEF NoOwner
  <2> HIDE DEF due
  <2>4. CASE Cardinality(w) < BatchSize
    <3>1. at' = "truncate"
      BY <2>1, <2>4
    <3> QED  BY OrderGrows, <2>2, <3>1 DEF BackfillAdvances
  <2>5. CASE ~ (Cardinality(w) < BatchSize)
    <3>1. cursor' > cursor /\ at' = "denorm"
      BY <2>1, <2>3, <2>5, BatchEndsLater
    <3> QED  BY <2>2, <3>1 DEF BackfillAdvances
  <2> QED  BY <2>4, <2>5
<1>8. CASE denorm_fails
  <2>1. at = "denorm" /\ at' = "enable"
    BY <1>8 DEF denorm_fails, DenormErrs
  <2> QED  BY OrderGrows, <2>1 DEF BackfillAdvances
<1>9. CASE truncate_counts \/ rebuild_counts \/ enable_trigger
  <2>1. \/ at = "truncate" /\ at' = "rebuild"
        \/ at = "rebuild" /\ at' = "enable"
        \/ at = "enable" /\ at' = "ended"
    BY <1>9 DEF truncate_counts, rebuild_counts, enable_trigger
  <2> QED  BY OrderGrows, <2>1 DEF BackfillAdvances
<1>10. ASSUME NEW m \in Letter, denorm_batch_short(m) PROVE BackfillAdvances
  <2>1. at = "denorm" /\ at' = "truncate"
    BY <1>10 DEF denorm_batch_short
  <2> QED  BY OrderGrows, <2>1 DEF BackfillAdvances
<1> QED
  BY <1>1, <1>2, <1>3, <1>4, <1>5, <1>6, <1>7, <1>8, <1>9, <1>10 DEF run_startup_backfill

\* The trigger is off only until the pass has been at its last statement.
TriggerInv ==
    ~ trigger => \/ at \in {"denorm", "truncate", "rebuild", "enable"}
                 \/ at = "ended" /\ "enable" \in errored

LEMMA TriggerNext == TriggerInv /\ [BackfillNext]_backfillVars => TriggerInv'
<1> SUFFICES ASSUME TriggerInv, [BackfillNext]_backfillVars PROVE TriggerInv'
  OBVIOUS
<1> USE FollowingIs DEF TriggerInv, rowsVars, taskVars, passVars, Proceed
<1>1. ASSUME NEW m \in Letter, \/ batch_insert_bare(m) \/ queue_bare(m) \/ queue_gossip(m)
                               \/ reject_letter(m) \/ drop_duplicate(m) \/ forget_derived(m)
                               \/ process_letter(m) \/ forget_letter(m)
      PROVE TriggerInv'
  BY <1>1 DEF batch_insert_bare, queue_bare, queue_gossip, reject_letter, drop_duplicate,
              forget_derived, process_letter, forget_letter
<1>2. CASE check_missing \/ check_fails
  BY <1>2 DEF check_missing, check_fails
<1>3. ASSUME NEW type \in Walked, batch_derive(type) \/ batch_cursor(type) PROVE TriggerInv'
  BY <1>3 DEF batch_derive, batch_cursor
<1>4. ASSUME NEW type \in Swept, sweep(type) PROVE TriggerInv'
  BY <1>4 DEF sweep
<1>5. ASSUME NEW type \in Walked \cup Swept, backfill_fails(type) PROVE TriggerInv'
  BY <1>5 DEF backfill_fails
<1>6. CASE disable_trigger \/ disable_fails
  BY <1>6 DEF disable_trigger, disable_fails
<1>7. CASE denorm_batch
  <2>1. at' \in {"truncate", "denorm"}
    BY <1>7 DEF denorm_batch
  <2> QED  BY <2>1
<1>8. CASE denorm_fails
  BY <1>8 DEF denorm_fails
<1>9. CASE truncate_counts \/ rebuild_counts
  BY <1>9 DEF truncate_counts, rebuild_counts
<1>10. CASE enable_trigger
  BY <1>10 DEF enable_trigger
<1>11. CASE restart_node
  BY <1>11 DEF restart_node
<1>12. CASE UNCHANGED backfillVars
  BY <1>12 DEF backfillVars
<1>13. ASSUME NEW m \in Letter, denorm_batch_short(m) PROVE TriggerInv'
  BY <1>13 DEF denorm_batch_short
<1> QED
  BY <1>1, <1>2, <1>3, <1>4, <1>5, <1>6, <1>7, <1>8, <1>9, <1>10, <1>11, <1>12, <1>13
     DEF BackfillNext, run_startup_backfill

(***************************************************************************)
(* The counts                                                              *)
(***************************************************************************)

\* The rows that are counted under a key.
Under(k) == {m \in stored : OwnerKey(m, owned) = k}

Counted(k) == IF k \in DOMAIN counts THEN counts[k] ELSE 0

\* A count that is not there is of nothing.
CountInv ==
    ~ blind =>
        /\ \A k \in {"owned", "none"} : Counted(k) = Cardinality(Under(k))
        /\ Counted("all") = Cardinality(stored)

LEMMA UnderIs == /\ Under("owned") = {m \in stored : m \in owned}
                 /\ Under("none") = {m \in stored : m \notin owned}
                 /\ \A k : Under(k) \subseteq stored
BY DEF Under, OwnerKey

\* The trigger follows one row, whatever its keys were and become.
LEMMA CountsFollow ==
    ASSUME BackfillTypeOK, BackfillTypeOK', CountInv, NEW m \in Letter, NEW new,
           update_message_counts(KeyOf(m), new),
           \/ new = {} /\ stored' = stored \ {m} /\ owned' = owned \ {m}
           \/ new = {"none"} /\ m \notin stored /\ stored' = stored \cup {m} /\ owned' = owned
           \/ new = {"owned"} /\ stored' = stored \cup {m} /\ owned' = owned \cup {m}
    PROVE  CountInv'
<1> SUFFICES ASSUME ~ blind'
             PROVE  /\ \A k \in {"owned", "none"} : Counted(k)' = Cardinality(Under(k)')
                    /\ Counted("all")' = Cardinality(stored')
  BY DEF CountInv
<1>1. /\ ~ blind /\ trigger
      /\ counts' = LET less == IF KeyOf(m) = {} THEN counts ELSE Decremented(counts, KeyOf(m))
                   IN  IF new = {} THEN less ELSE Incremented(less, new)
  BY DEF update_message_counts
<1>2. /\ Counted("owned") = Cardinality(Under("owned"))
      /\ Counted("none") = Cardinality(Under("none"))
      /\ Counted("all") = Cardinality(stored)
  BY <1>1 DEF CountInv
<1>3. \A k : IsFiniteSet(Under(k)) /\ Cardinality(Under(k)) \in Nat
  BY UnderIs, FS_Subset, FS_CardinalityType DEF BackfillTypeOK
<1>4. IsFiniteSet(stored) /\ Cardinality(stored) \in Nat /\ owned \subseteq stored
  BY FS_CardinalityType DEF BackfillTypeOK
\* What the sets become, by key.
<1> DEFINE old == KeyOf(m)
           loses(k) == k \in old \/ (k = "all" /\ old # {})
           gains(k) == k \in new \/ (k = "all" /\ new # {})
           Of(k) == IF k = "all" THEN stored ELSE Under(k)
           Keys == {"owned", "none", "all"}
<1>5. old \in {{}, {"owned"}, {"none"}} /\ new \in {{}, {"owned"}, {"none"}}
  BY DEF KeyOf, OwnerKey
<1>6. ASSUME NEW k \in Keys
      PROVE  /\ loses(k) <=> m \in Of(k)
             /\ gains(k) => Of(k)' = (Of(k) \ {m}) \cup {m}
             /\ ~ gains(k) => Of(k)' = Of(k) \ {m}
  <2>1. loses(k) <=> m \in Of(k)
    BY <1>4, UnderIs DEF KeyOf, OwnerKey
  <2>2. Under("owned")' = {n \in stored' : n \in owned'}
        /\ Under("none")' = {n \in stored' : n \notin owned'}
    BY DEF Under, OwnerKey
  <2>3. /\ stored' = (IF new = {} THEN stored \ {m} ELSE stored \cup {m})
        /\ owned' = (IF new = {} THEN owned \ {m} ELSE IF new = {"none"} THEN owned ELSE owned \cup {m})
        /\ new = {"none"} => m \notin stored
    BY Zenon
  <2>4. CASE k = "all"
    BY <1>5, <2>1, <2>3, <2>4
  <2>5. CASE k = "owned"
    <3>1. Of(k) = {n \in stored : n \in owned} /\ Of(k)' = {n \in stored' : n \in owned'}
      BY <2>2, <2>5, UnderIs
    <3>2. gains(k) <=> new = {"owned"}
      BY <1>5, <2>5
    <3> HIDE DEF Of, gains, loses
    <3> QED  BY <1>4, <1>5, <2>1, <2>3, <3>1, <3>2
  <2>6. CASE k = "none"
    <3>1. Of(k) = {n \in stored : n \notin owned} /\ Of(k)' = {n \in stored' : n \notin owned'}
      BY <2>2, <2>6, UnderIs
    <3>2. gains(k) <=> new = {"none"}
      BY <1>5, <2>6
    <3> HIDE DEF Of, gains, loses
    <3> QED  BY <1>4, <1>5, <2>1, <2>3, <3>1, <3>2
  <2> QED  BY <2>4, <2>5, <2>6
<1>7. ASSUME NEW k \in Keys
      PROVE  /\ IsFiniteSet(Of(k)) /\ Cardinality(Of(k)) \in Nat /\ Counted(k) = Cardinality(Of(k))
             /\ Cardinality(Of(k)') = Cardinality(Of(k)) - (IF loses(k) THEN 1 ELSE 0)
                                                         + (IF gains(k) THEN 1 ELSE 0)
             /\ loses(k) => k \in DOMAIN counts
  <2>1. IsFiniteSet(Of(k)) /\ Cardinality(Of(k)) \in Nat /\ Counted(k) = Cardinality(Of(k))
    BY <1>2, <1>3, <1>4
  <2> DEFINE S == Of(k)
             rest == S \ {m}
  <2>2. IsFiniteSet(rest) /\ Cardinality(rest) = IF m \in S THEN Cardinality(S) - 1 ELSE Cardinality(S)
    BY <2>1, FS_RemoveElement
  <2>3. Cardinality(rest \cup {m}) = Cardinality(rest) + 1
    BY <2>2, FS_AddElement
  <2>4. Cardinality(S') = Cardinality(S) - (IF loses(k) THEN 1 ELSE 0) + (IF gains(k) THEN 1 ELSE 0)
    <3>1. (loses(k) <=> m \in S) /\ (gains(k) => S' = rest \cup {m}) /\ (~ gains(k) => S' = rest)
      BY <1>6
    <3>2. IsFiniteSet(S) /\ Cardinality(S) \in Nat
      BY <2>1
    <3>3. Cardinality(rest) = Cardinality(S) - (IF loses(k) THEN 1 ELSE 0)
      <4> HIDE DEF rest, S, loses
      <4> QED  BY <2>2, <3>1, <3>2
    <3>4. Cardinality(S') = Cardinality(rest) + (IF gains(k) THEN 1 ELSE 0)
      <4>1. CASE gains(k)
        BY <2>3, <3>1, <4>1
      <4>2. CASE ~ gains(k)
        <5>1. Cardinality(S') = Cardinality(rest)
          BY <3>1, <4>2
        <5>2. Cardinality(rest) \in Int
          <6>1. IsFiniteSet(rest)
            BY <2>2
          <6> HIDE DEF rest
          <6> QED  BY <6>1, FS_CardinalityType
        <5> HIDE DEF rest, S, gains
        <5> QED  BY <4>2, <5>1, <5>2
      <4> QED  BY <4>1, <4>2
    <3> QED  BY <3>3, <3>4
  <2>5. loses(k) => k \in DOMAIN counts
    <3> SUFFICES ASSUME loses(k), k \notin DOMAIN counts PROVE FALSE
      OBVIOUS
    <3>1. Cardinality(S) = 0
      BY <2>1 DEF Counted
    <3> QED  BY <1>6, <2>1, <3>1, FS_EmptySet
  <2> QED  BY <2>1, <2>4, <2>5
\* What the statements make of the counts.
<1>8. ASSUME NEW k \in Keys
      PROVE  Counted(k)' = Counted(k) - (IF loses(k) THEN 1 ELSE 0) + (IF gains(k) THEN 1 ELSE 0)
  <2> DEFINE less == IF old = {} THEN counts ELSE Decremented(counts, old)
  <2>1. DOMAIN less = DOMAIN counts
    BY DEF Decremented
  <2>2. k \in DOMAIN counts => less[k] = Counted(k) - (IF loses(k) THEN 1 ELSE 0)
    <3>1. CASE old = {}
      BY <1>7, <3>1 DEF Counted
    <3>2. CASE old # {}
      BY <1>7, <3>2 DEF Counted, Decremented
    <3> QED  BY <3>1, <3>2
  <2>3. counts' = IF new = {} THEN less ELSE Incremented(less, new)
    BY <1>1
  <2> HIDE DEF less
  <2>4. CASE new = {}
    BY <1>7, <2>1, <2>2, <2>3, <2>4 DEF Counted
  <2>5. CASE new # {}
    <3>1. counts' = [x \in DOMAIN less \cup new \cup {"all"} |->
              (IF x \in DOMAIN less THEN less[x] ELSE 0) + (IF x \in new \cup {"all"} THEN 1 ELSE 0)]
      BY <2>3, <2>5 DEF Incremented
    <3>2. gains(k) <=> k \in new \cup {"all"}
      BY <2>5
    <3>3. k \notin DOMAIN counts => ~ loses(k) /\ Counted(k) = 0
      BY <1>7 DEF Counted
    <3>4. Counted(k)' = IF k \in DOMAIN less \cup new \cup {"all"} THEN counts'[k] ELSE 0
      BY <3>1 DEF Counted
    <3>5. CASE k \in DOMAIN counts
      BY <2>1, <2>2, <3>1, <3>2, <3>4, <3>5
    <3>6. CASE k \notin DOMAIN counts
      BY <2>1, <3>1, <3>2, <3>3, <3>4, <3>6
    <3> QED  BY <3>5, <3>6
  <2> QED  BY <2>4, <2>5
<1>9. \A k \in Keys : Counted(k)' = Cardinality(Of(k)')
  BY <1>7, <1>8
<1> QED  BY <1>9

LEMMA CountNext == ASSUME BackfillTypeOK, BackfillTypeOK', CountInv, [BackfillNext]_backfillVars
                   PROVE  CountInv'
<1> USE DEF rowsVars, taskVars, passVars
<1>0. ASSUME UNCHANGED <<stored, owned, counts, blind>> PROVE CountInv'
  BY <1>0 DEF CountInv, Counted, Under, OwnerKey
<1>1. ASSUME NEW m \in Letter, batch_insert_bare(m) PROVE CountInv'
  <2>1. KeyOf(m) = {}
    BY <1>1 DEF batch_insert_bare, KeyOf
  <2> QED  BY <1>1, <2>1, CountsFollow DEF batch_insert_bare
<1>2. ASSUME NEW m \in Letter, \/ queue_bare(m) \/ queue_gossip(m) \/ reject_letter(m)
                               \/ drop_duplicate(m) \/ forget_derived(m)
      PROVE CountInv'
  BY <1>0, <1>2 DEF queue_bare, queue_gossip, reject_letter, drop_duplicate, forget_derived
<1>3. ASSUME NEW m \in Letter, process_letter(m) PROVE CountInv'
  BY <1>3, CountsFollow DEF process_letter
<1>4. ASSUME NEW m \in Letter, forget_letter(m) PROVE CountInv'
  BY <1>4, CountsFollow DEF forget_letter
<1>5. CASE check_missing \/ check_fails
  BY <1>0, <1>5 DEF check_missing, check_fails
<1>6. ASSUME NEW type \in Walked, batch_derive(type) \/ batch_cursor(type) PROVE CountInv'
  BY <1>0, <1>6 DEF batch_derive, batch_cursor
<1>7. ASSUME NEW type, sweep(type) \/ backfill_fails(type) PROVE CountInv'
  BY <1>0, <1>7 DEF sweep, backfill_fails
<1>8. CASE disable_trigger \/ disable_fails \/ denorm_fails \/ enable_trigger \/ restart_node
  BY <1>0, <1>8 DEF disable_trigger, disable_fails, denorm_fails, enable_trigger, restart_node
<1>9. CASE denorm_batch
  <2>1. PICK w \in FirstRows({m \in NoOwner : After(m)}) :
          /\ owned' = owned \cup {m \in w : Body[m] = "good"}
          /\ blind' = (blind \/ w # {})
    BY <1>9 DEF denorm_batch
  <2>2. UNCHANGED <<stored, counts>>
    BY <1>9 DEF denorm_batch
  <2>3. CASE w = {}
    <3>1. owned' = owned /\ (blind' <=> blind)
      BY <2>1, <2>3
    <3> QED  BY <2>2, <3>1 DEF CountInv, Counted, Under, OwnerKey
  <2>4. CASE w # {}
    BY <2>1, <2>4 DEF CountInv
  <2> QED  BY <2>3, <2>4
<1>10. CASE truncate_counts
  BY <1>0, <1>10 DEF truncate_counts, CountInv, Counted, Under, OwnerKey
<1>11. CASE rebuild_counts
  <2>1. CASE UNCHANGED <<counts, blind>>
    BY <1>0, <1>11, <2>1 DEF rebuild_counts
  <2>2. CASE /\ counts' = [k \in DOMAIN Grouped \cup DOMAIN counts |->
                            IF k \in DOMAIN Grouped THEN Grouped[k] ELSE counts[k]]
             /\ blind' = (counts # <<>>)
    <3> SUFFICES ASSUME counts = <<>>
                 PROVE  /\ \A k \in {"owned", "none"} : Counted(k)' = Cardinality(Under(k)')
                        /\ Counted("all")' = Cardinality(stored')
      BY <2>2 DEF CountInv
    <3> DEFINE Of(k) == IF k = "all" THEN stored ELSE Under(k)
    <3>1. stored' = stored /\ \A k : Under(k)' = Under(k)
      BY <1>11 DEF rebuild_counts, Under, OwnerKey
    <3>2. DOMAIN counts = {}
      OBVIOUS
    <3>3. ASSUME NEW k \in {"owned", "none", "all"} PROVE Counted(k)' = Cardinality(Of(k))
      <4>1. Of(k) = {m \in stored : k \in {"all", OwnerKey(m, owned)}}
        BY DEF Under, OwnerKey
      <4>2. DOMAIN counts' = DOMAIN Grouped
        BY <2>2, <3>2
      <4>3. k \in DOMAIN Grouped => counts'[k] = Cardinality(Of(k))
        <5>1. k \in DOMAIN Grouped => Grouped[k] = Cardinality(Of(k))
          BY <4>1 DEF Grouped
        <5> QED  BY <2>2, <5>1
      <4>4. k \notin DOMAIN Grouped => Of(k) = {}
        BY <4>1 DEF Grouped
      <4> HIDE DEF Of
      <4> QED  BY <4>2, <4>3, <4>4, FS_EmptySet DEF Counted
    <3> QED  BY <3>1, <3>3
  <2> QED  BY <1>11, <2>1, <2>2 DEF rebuild_counts
<1>12. CASE UNCHANGED backfillVars
  BY <1>0, <1>12 DEF backfillVars
<1>13. ASSUME NEW m \in Letter, denorm_batch_short(m) PROVE CountInv'
  BY <1>13 DEF denorm_batch_short, CountInv
<1> QED
  BY <1>1, <1>2, <1>3, <1>4, <1>5, <1>6, <1>7, <1>8, <1>9, <1>10, <1>11, <1>12, <1>13
     DEF BackfillNext, run_startup_backfill

(***************************************************************************)
(* The rows                                                                *)
(***************************************************************************)

\* The steps after the one, or the two, of a type, before the pass is past its counts.
Past(type) ==
    {"disable", "denorm", "truncate", "rebuild"}
        \cup (IF type = "PROGRAM" THEN {} ELSE {"PROGRAM"})
        \cup (IF type \in {"POST", "AGGREGATE"} THEN {"INSTANCE"} ELSE {})
        \cup (IF type = "POST" THEN {"AGGREGATE", "AGGREGATE cursor"} ELSE {})

Same(m) == {n \in stored : TypeOf[n] = TypeOf[m]}

\* What is said of a row at the end.
RowFine(m) ==
    \/ m \in derivedRows
    \/ TypeOf[m] \in errored
    \/ /\ TypeOf[m] \in Walked
       /\ (\E n \in cut : TypeOf[n] = TypeOf[m]) \/ Tie(m, Same(m))

\* The next batch of rows ends before m.
Full(m) == \E w \in SUBSET (Same(m) \ {m}) :
              Cardinality(w) = BatchSize /\ \A n \in w : After(n) /\ SentAt[n] <= SentAt[m]

\* What the walk has not derived is after the cursor, by more than a batch once it has
\* derived one.
RowInv(m) ==
    /\ at \in Past(TypeOf[m]) => RowFine(m)
    /\ TypeOf[m] \in Walked /\ at = TypeOf[m] => RowFine(m) \/ After(m)
    /\ TypeOf[m] \in Walked /\ at = CursorOf(TypeOf[m]) => RowFine(m) \/ (After(m) /\ Full(m))

RowsInv == \A m \in stood \ erasing : RowInv(m)

ColumnFine(m) == m \in owned \/ "short" \in errored \/ Tie(m, stored \cup cut)

ColumnInv(m) ==
    /\ at = "denorm" => ColumnFine(m) \/ After(m)
    /\ at \in {"truncate", "rebuild"} => ColumnFine(m)

ColumnsInv == \A m \in stood \ erasing : ColumnInv(m)

BackfillInv == BackfillTypeOK /\ TriggerInv /\ CountInv /\ RowsInv /\ ColumnsInv

LEMMA TieGrows == ASSUME NEW m, NEW S, NEW T, S \subseteq T, Tie(m, S) PROVE Tie(m, T)
BY DEF Tie

\* What the others do keeps what the pass has reached.
LEMMA RowsGrow ==
    ASSUME BackfillTypeOK, RowsInv, ColumnsInv, stored \subseteq stored', owned \subseteq owned',
           \A m \in derivedRows : m \in derivedRows' \/ m \in erasing',
           erasing \subseteq erasing', UNCHANGED <<at, cursor, errored, stood, cut>>
    PROVE  RowsInv' /\ ColumnsInv'
<1> SUFFICES ASSUME NEW m \in stood' \ erasing' PROVE RowInv(m)' /\ ColumnInv(m)'
  BY DEF RowsInv, ColumnsInv
<1>1. m \in stood \ erasing /\ RowInv(m) /\ ColumnInv(m)
  BY DEF RowsInv, ColumnsInv
<1>2. Same(m) \subseteq Same(m)' /\ stored \cup cut \subseteq (stored \cup cut)'
  BY DEF Same
<1>3. RowFine(m) => RowFine(m)'
  <2>1. Tie(m, Same(m)) => Tie(m, Same(m)')
    BY <1>2, TieGrows
  <2> QED  BY <2>1 DEF RowFine, Tie
<1>4. ColumnFine(m) => ColumnFine(m)'
  <2>1. Tie(m, stored \cup cut) => Tie(m, (stored \cup cut)')
    BY <1>2, TieGrows
  <2> QED  BY <2>1 DEF ColumnFine, Tie
<1>5. Full(m) => Full(m)'
  BY <1>2 DEF Full, After
<1>6. \A n : After(n) <=> After(n)'
  BY DEF After
<1>7. RowInv(m)'
  BY <1>1, <1>3, <1>5, <1>6 DEF RowInv
<1>8. ColumnInv(m)'
  BY <1>1, <1>4, <1>6 DEF ColumnInv
<1> QED  BY <1>7, <1>8

\* A message that is deleted is remembered while the pass goes on.
LEMMA RowsForgotten ==
    ASSUME BackfillTypeOK, RowsInv, ColumnsInv, NEW x \in Letter, forget_letter(x)
    PROVE  RowsInv' /\ ColumnsInv'
<1> SUFFICES ASSUME NEW m \in stood' \ erasing' PROVE RowInv(m)' /\ ColumnInv(m)'
  BY DEF RowsInv, ColumnsInv
<1>0. /\ stored' = stored \ {x} /\ owned' = owned \ {x} /\ stood' = stood \ {x}
      /\ erasing' = erasing \ {x} /\ UNCHANGED <<derivedRows, at, cursor, errored>>
      /\ at # "ended" => cut' = cut \cup {x}
  BY DEF forget_letter
<1>1. m # x /\ m \in stood \ erasing /\ RowInv(m) /\ ColumnInv(m)
  BY <1>0 DEF RowsInv, ColumnsInv
<1> SUFFICES ASSUME at # "ended" PROVE RowInv(m)' /\ ColumnInv(m)'
  BY <1>0, <1>1, FollowingIs DEF RowInv, ColumnInv, Past
<1>2. cut' = cut \cup {x}
  BY <1>0
<1>3. TypeOf[m] \in Walked /\ TypeOf[x] = TypeOf[m] => RowFine(m)'
  BY <1>2 DEF RowFine
<1>4. TypeOf[x] # TypeOf[m] => Same(m)' = Same(m)
  BY <1>0 DEF Same
<1>5. RowFine(m) => RowFine(m)'
  BY <1>0, <1>2, <1>3, <1>4 DEF RowFine, Tie
<1>6. \A n : After(n) <=> After(n)'
  BY <1>0 DEF After
<1>7. Full(m) /\ TypeOf[x] # TypeOf[m] => Full(m)'
  BY <1>0, <1>4 DEF Full, After
<1>8. ColumnFine(m) => ColumnFine(m)'
  <2>1. stored \cup cut \subseteq (stored \cup cut)'
    BY <1>0, <1>2
  <2>2. Tie(m, stored \cup cut) => Tie(m, (stored \cup cut)')
    BY <2>1, TieGrows
  <2> QED  BY <1>0, <1>1, <2>2 DEF ColumnFine, Tie
<1>9. RowInv(m)'
  BY <1>0, <1>1, <1>3, <1>5, <1>6, <1>7 DEF RowInv
<1>10. ColumnInv(m)'
  BY <1>0, <1>1, <1>6, <1>8 DEF ColumnInv
<1> QED  BY <1>9, <1>10

\* A batch derives what comes first: what it does not, comes after a batch of rows.
LEMMA RowsDerived ==
    ASSUME BackfillTypeOK, RowsInv, NEW type \in Walked, batch_derive(type)
    PROVE  RowsInv'
<1> DEFINE due == {m \in Unfilled(type) : Body[m] # "empty" /\ After(m)}
<1>1. PICK w \in FirstRows(due) : derivedRows' = derivedRows \cup {m \in w : Body[m] = "good"}
  BY DEF batch_derive
<1>2. /\ at = type /\ at' = CursorOf(type)
      /\ UNCHANGED <<stored, erasing, cursor, errored, stood, cut>>
  BY DEF batch_derive, Proceed, taskVars
<1> SUFFICES ASSUME NEW m \in stood \ erasing PROVE RowInv(m)'
  BY <1>2 DEF RowsInv
<1>3. RowInv(m) /\ m \in stored /\ m \in Letter /\ Body[m] = "good"
  BY DEF RowsInv, BackfillTypeOK
<1>4. RowFine(m) => RowFine(m)'
  BY <1>1, <1>2 DEF RowFine, Tie, Same
<1>5. \A n : After(n) <=> After(n)'
  BY <1>2 DEF After
<1>6. CASE TypeOf[m] = type
  <2>1. RowFine(m) \/ After(m)
    BY <1>2, <1>3, <1>6 DEF RowInv
  <2>2. ASSUME ~ RowFine(m)' PROVE After(m)' /\ Full(m)'
    <3>1. After(m) /\ m \notin derivedRows /\ m \notin derivedRows'
      BY <1>1, <1>4, <2>1, <2>2 DEF RowFine
    <3>2. m \in due /\ m \notin w
      BY <1>1, <1>3, <1>6, <3>1 DEF Unfilled
    <3>3. due \subseteq Same(m) /\ due \subseteq stored /\ \A n \in due : After(n)
      BY <1>6 DEF Same, Unfilled
    <3>4. IsFiniteSet(due)
      BY <3>3, FS_Subset DEF BackfillTypeOK
    <3> HIDE DEF due
    <3>5. /\ w \subseteq due /\ Cardinality(w) = BatchSize
          /\ \A n \in w : SentAt[n] <= SentAt[m]
      BY <3>2, <3>4, FirstRowsAre
    <3>6. w \in SUBSET (Same(m) \ {m})
      BY <3>2, <3>3, <3>5
    <3>7. Full(m)
      BY <3>3, <3>5, <3>6 DEF Full
    <3>8. Same(m)' = Same(m)
      BY <1>2 DEF Same
    <3> QED  BY <1>5, <3>1, <3>7, <3>8 DEF Full, After
  <2>3. at' \notin Past(TypeOf[m]) /\ at' # TypeOf[m]
    BY <1>2, <1>6, FollowingIs DEF Past
  <2> QED  BY <2>2, <2>3 DEF RowInv
<1>7. CASE TypeOf[m] # type
  <2>1. at' \in Past(TypeOf[m]) => at \in Past(TypeOf[m])
    BY <1>2, <1>7, FollowingIs DEF Past
  <2>2. TypeOf[m] \in Walked => at' # TypeOf[m] /\ at' # CursorOf(TypeOf[m])
    BY <1>2, <1>7, FollowingIs
  <2> QED  BY <1>3, <1>4, <2>1, <2>2 DEF RowInv
<1> QED  BY <1>6, <1>7

\* The cursor passes a batch of rows: none that is to be derived, but one of the time of the last.
LEMMA RowsPassed ==
    ASSUME BackfillTypeOK, RowsInv, NEW type \in Walked, batch_cursor(type)
    PROVE  RowsInv'
<1> DEFINE due == CursorRows(type)
<1>1. PICK w \in FirstRows(due) : IF Cardinality(w) < BatchSize
                                   THEN cursor' = 0 /\ at' = Following(type)
                                   ELSE cursor' = LastTime(w) /\ at' = type
  BY DEF batch_cursor, Proceed
<1>2. at = CursorOf(type) /\ UNCHANGED <<stored, derivedRows, erasing, errored, stood, cut>>
  BY DEF batch_cursor, taskVars, rowsVars
<1> SUFFICES ASSUME NEW m \in stood \ erasing PROVE RowInv(m)'
  BY <1>2 DEF RowsInv
<1>3. RowInv(m) /\ m \in stored /\ m \in Letter /\ SentAt[m] \in Nat \ {0}
  BY BackfillAssumption DEF RowsInv, BackfillTypeOK
<1>4. RowFine(m) <=> RowFine(m)'
  BY <1>2 DEF RowFine, Tie, Same
<1>5. /\ IsFiniteSet(due) /\ due \subseteq stored /\ \A n \in due : After(n)
      /\ \A n \in due : n \in Letter
  BY FS_Subset DEF CursorRows, BackfillTypeOK
<1>6. CASE TypeOf[m] = type
  <2>1. RowFine(m) \/ (After(m) /\ Full(m))
    BY <1>2, <1>3, <1>6 DEF RowInv
  <2>2. ASSUME ~ RowFine(m), After(m), Full(m)
        PROVE  Cardinality(w) >= BatchSize /\ (LastTime(w) < SentAt[m])
    <3>1. m \in due
      BY <1>3, <1>6, <2>2 DEF CursorRows
    <3>2. PICK v \in SUBSET (Same(m) \ {m}) :
             Cardinality(v) = BatchSize /\ \A n \in v : After(n) /\ SentAt[n] <= SentAt[m]
      BY <2>2 DEF Full
    <3>3. v \subseteq due /\ \A n \in v : n # m /\ SentAt[n] < SentAt[m]
      <4>1. \A n \in v : n \in due /\ n # m
        BY <1>6, <3>2 DEF CursorRows, Same
      <4>2. \A n \in v : SentAt[n] # SentAt[m]
        <5>1. ~ Tie(m, Same(m)) /\ v \subseteq Same(m) \ {m}
          BY <1>6, <2>2, <3>2 DEF RowFine
        <5> QED  BY <5>1 DEF Tie
      <4> QED  BY <1>3, <1>5, <3>2, <4>1, <4>2, BackfillAssumption
    <3>4. /\ w \subseteq due /\ IsFiniteSet(w) /\ Cardinality(w) \in Nat
          /\ Cardinality(w) <= BatchSize /\ (w # due => Cardinality(w) = BatchSize)
          /\ \A n \in w, o \in due \ w : SentAt[n] <= SentAt[o]
      BY <1>5, FirstRowsAre
    <3>5. m \notin w
      <4> SUFFICES ASSUME m \in w PROVE FALSE
        OBVIOUS
      <4>1. v \subseteq w \ {m}
        <5> SUFFICES ASSUME NEW n \in v, n \notin w PROVE FALSE
          BY <3>3
        <5>1. SentAt[m] <= SentAt[n]
          BY <3>3, <3>4
        <5> QED  BY <1>3, <1>5, <3>3, <5>1, BackfillAssumption
      <4>2. IsFiniteSet(w \ {m}) /\ Cardinality(w \ {m}) = Cardinality(w) - 1
        BY <3>4, FS_RemoveElement
      <4>3. Cardinality(v) <= Cardinality(w \ {m})
        BY <4>1, <4>2, FS_Subset
      <4> QED  BY <3>2, <3>4, <4>2, <4>3, BackfillAssumption
    <3>6. Cardinality(w) = BatchSize
      BY <3>1, <3>4, <3>5
    <3>7. \E n \in w : LastTime(w) = SentAt[n]
      <4>1. ~ (Cardinality(w) < BatchSize)
        BY <3>6, BackfillAssumption
      <4> HIDE DEF due
      <4> QED  BY <1>5, <4>1, BatchEndsLater
    <3>8. PICK n \in w : LastTime(w) = SentAt[n]
      BY <3>7
    <3>9. SentAt[n] <= SentAt[m]
      BY <3>1, <3>4, <3>5, <3>8
    <3>10. SentAt[n] # SentAt[m]
      <4>1. n \in Same(m) \ {m}
        BY <1>6, <3>4, <3>5, <3>8 DEF CursorRows, Same
      <4> QED  BY <1>6, <2>2, <4>1 DEF RowFine, Tie
    <3>11. SentAt[n] \in Nat
      BY <1>5, <3>4, <3>8, BackfillAssumption
    <3> QED  BY <1>3, <3>6, <3>8, <3>9, <3>10, <3>11, BackfillAssumption
  <2>3. RowFine(m) \/ (at' = type /\ After(m)')
    <3> SUFFICES ASSUME ~ RowFine(m) PROVE at' = type /\ After(m)'
      OBVIOUS
    <3>1. Cardinality(w) >= BatchSize /\ LastTime(w) < SentAt[m]
      BY <2>1, <2>2
    <3>2. ~ (Cardinality(w) < BatchSize)
      <4>1. Cardinality(w) \in Nat /\ BatchSize \in Nat
        BY <1>5, FirstRowsAre, BackfillAssumption
      <4> QED  BY ONLY <3>1, <4>1
    <3>3. LastTime(w) \in Nat
      <4> HIDE DEF due
      <4> QED  BY <1>5, <3>2, BatchEndsLater
    <3> QED  BY <1>1, <1>3, <3>1, <3>2, <3>3 DEF After
  <2>4. type # CursorOf(type) /\ Following(type) # CursorOf(type) /\ type \notin Past(type)
    BY FollowingIs DEF Past
  <2>5. at' \in {type, Following(type)}
    BY <1>1
  <2> QED  BY <1>4, <1>6, <2>3, <2>4, <2>5 DEF RowInv
<1>7. CASE TypeOf[m] # type
  <2>1. at' \in {type, Following(type)}
    BY <1>1
  <2>2. TypeOf[m] \in Walked /\ TypeOf[m] # type => at' # CursorOf(TypeOf[m])
    BY <2>1, FollowingIs
  <2>3. at' \in Past(TypeOf[m]) => at \in Past(TypeOf[m])
    BY <1>2, <1>7, <2>1, FollowingIs DEF Past
  <2>4. TypeOf[m] \in Walked /\ at' = TypeOf[m] => After(m)'
    <3> SUFFICES ASSUME TypeOf[m] \in Walked, at' = TypeOf[m] PROVE After(m)'
      OBVIOUS
    <3>1. cursor' = 0
      BY <1>1, <1>7
    <3> QED  BY <1>3, <3>1 DEF After
  <2>5. at' \in Past(TypeOf[m]) => RowFine(m)'
    BY <1>3, <1>4, <2>3 DEF RowInv
  <2> QED  BY <1>7, <2>2, <2>4, <2>5 DEF RowInv
<1> QED  BY <1>6, <1>7

\* One statement derives all rows of a type.
LEMMA RowsSwept ==
    ASSUME BackfillTypeOK, RowsInv, NEW type \in Swept, sweep(type)
    PROVE  RowsInv'
<1>1. /\ at = type /\ at' = Following(type)
      /\ derivedRows' = derivedRows \cup {m \in Unfilled(type) : Body[m] # "empty"}
      /\ UNCHANGED <<stored, erasing, errored, stood, cut>>
  BY DEF sweep, Proceed, taskVars
<1> SUFFICES ASSUME NEW m \in stood \ erasing PROVE RowInv(m)'
  BY <1>1 DEF RowsInv
<1>2. RowInv(m) /\ m \in stored /\ Body[m] = "good"
  BY DEF RowsInv, BackfillTypeOK
<1>3. RowFine(m) => RowFine(m)'
  BY <1>1 DEF RowFine, Tie, Same
<1>4. TypeOf[m] = type => RowFine(m)'
  BY <1>1, <1>2 DEF RowFine, Unfilled
<1>5. TypeOf[m] # type /\ at' \in Past(TypeOf[m]) => at \in Past(TypeOf[m])
  <2>1. TypeOf[m] \in Walked \cup Swept
    BY <1>2, BackfillAssumption DEF BackfillTypeOK
  <2> QED  BY <1>1, <2>1, FollowingIs DEF Past
<1>6. TypeOf[m] \in Walked => at' # TypeOf[m] /\ at' # CursorOf(TypeOf[m])
  BY <1>1, FollowingIs
<1>7. at' \in Past(TypeOf[m]) => RowFine(m)'
  BY <1>2, <1>3, <1>4, <1>5 DEF RowInv
<1> QED  BY <1>6, <1>7 DEF RowInv

\* A type that fails is on record.
LEMMA RowsFailed ==
    ASSUME BackfillTypeOK, RowsInv, NEW type \in Walked \cup Swept, backfill_fails(type)
    PROVE  RowsInv'
<1>1. /\ at = type \/ (type \in Walked /\ at = CursorOf(type))
      /\ at' = Following(type) /\ cursor' = 0 /\ errored' = errored \cup {type}
      /\ UNCHANGED <<stored, derivedRows, erasing, stood, cut>>
  BY DEF backfill_fails, Proceed, taskVars, rowsVars
<1> SUFFICES ASSUME NEW m \in stood \ erasing PROVE RowInv(m)'
  BY <1>1 DEF RowsInv
<1>2. RowInv(m) /\ m \in stored /\ SentAt[m] \in Nat \ {0}
  BY BackfillAssumption DEF RowsInv, BackfillTypeOK
<1>3. RowFine(m) => RowFine(m)'
  BY <1>1 DEF RowFine, Tie, Same
<1>4. TypeOf[m] = type => RowFine(m)'
  BY <1>1, <1>2 DEF RowFine
<1>5. TypeOf[m] # type /\ at' \in Past(TypeOf[m]) => at \in Past(TypeOf[m])
  <2>1. TypeOf[m] \in Walked \cup Swept
    BY <1>2, BackfillAssumption DEF BackfillTypeOK
  <2> QED  BY <1>1, <2>1, FollowingIs DEF Past
<1>6. TypeOf[m] \in Walked => at' # CursorOf(TypeOf[m])
  BY <1>1, FollowingIs
<1>7. at' \in Past(TypeOf[m]) => RowFine(m)'
  BY <1>2, <1>3, <1>4, <1>5 DEF RowInv
<1>8. After(m)'
  BY <1>1, <1>2 DEF After
<1> QED  BY <1>6, <1>7, <1>8 DEF RowInv

\* The columns are not looked at before the last walk.
LEMMA ColumnsLater ==
    ASSUME at' \notin {"denorm", "truncate", "rebuild"}
    PROVE  ColumnsInv'
BY DEF ColumnsInv, ColumnInv

\* A batch fills the columns of what comes first.
LEMMA ColumnsFilled ==
    ASSUME BackfillTypeOK, ColumnsInv, denorm_batch
    PROVE  ColumnsInv'
<1> DEFINE due == {m \in NoOwner : After(m)}
<1>1. PICK w \in FirstRows(due) : /\ owned' = owned \cup {m \in w : Body[m] = "good"}
                                   /\ IF Cardinality(w) < BatchSize
                                      THEN cursor' = 0 /\ at' = "truncate"
                                      ELSE cursor' = LastTime(w) /\ at' = "denorm"
  BY DEF denorm_batch, Proceed
<1>2. at = "denorm" /\ UNCHANGED <<stored, erasing, stood, cut, errored>>
  BY DEF denorm_batch, taskVars
<1> SUFFICES ASSUME NEW m \in stood \ erasing PROVE ColumnInv(m)'
  BY <1>2 DEF ColumnsInv
<1>3. ColumnInv(m) /\ m \in stored /\ Body[m] = "good" /\ SentAt[m] \in Nat \ {0}
  BY BackfillAssumption DEF ColumnsInv, BackfillTypeOK
<1>4. ColumnFine(m) => ColumnFine(m)'
  BY <1>1, <1>2 DEF ColumnFine, Tie
<1>5. /\ IsFiniteSet(due) /\ due \subseteq stored /\ \A n \in due : After(n) /\ n \in Letter
  BY FS_Subset DEF NoOwner, BackfillTypeOK
<1>6. /\ w \subseteq due /\ IsFiniteSet(w) /\ Cardinality(w) \in Nat
      /\ w # due => Cardinality(w) = BatchSize
      /\ \A n \in w, o \in due \ w : SentAt[n] <= SentAt[o]
  <2> HIDE DEF due
  <2> QED  BY <1>5, FirstRowsAre
<1>7. ColumnFine(m)' \/ (at' = "denorm" /\ After(m)')
  <2> SUFFICES ASSUME ~ ColumnFine(m)' PROVE at' = "denorm" /\ After(m)'
    OBVIOUS
  <2>1. After(m) /\ m \notin owned /\ m \notin owned'
    BY <1>2, <1>3, <1>4 DEF ColumnInv, ColumnFine
  <2>2. m \in due /\ m \notin w
    BY <1>1, <1>3, <2>1 DEF NoOwner
  <2>3. Cardinality(w) = BatchSize /\ ~ (Cardinality(w) < BatchSize)
    BY <1>6, <2>2, BackfillAssumption
  <2>4. PICK n \in w : LastTime(w) = SentAt[n]
    <3> HIDE DEF due
    <3> QED  BY <1>5, <2>3, BatchEndsLater
  <2>5. SentAt[n] <= SentAt[m]
    BY <1>6, <2>2, <2>4
  <2>6. SentAt[n] # SentAt[m]
    <3>1. n \in (stored \cup cut)' \ {m}
      BY <1>2, <1>5, <1>6, <2>2, <2>4
    <3> QED  BY <3>1 DEF ColumnFine, Tie
  <2>7. SentAt[n] \in Nat
    BY <1>5, <1>6, <2>4, BackfillAssumption
  <2> QED  BY <1>1, <1>3, <2>3, <2>4, <2>5, <2>6, <2>7 DEF After
<1>8. at' \in {"truncate", "denorm"}
  BY <1>1
<1> QED  BY <1>7, <1>8 DEF ColumnInv

\* A walk that ends early is on record, and so is the message deleted meanwhile.
LEMMA WalkCutShort ==
    ASSUME BackfillTypeOK, RowsInv, ColumnsInv, NEW x \in Letter, denorm_batch_short(x)
    PROVE  RowsInv' /\ ColumnsInv'
<1> SUFFICES ASSUME NEW m \in stood' \ erasing' PROVE RowInv(m)' /\ ColumnInv(m)'
  BY DEF RowsInv, ColumnsInv
<1>1. /\ at = "denorm" /\ at' = "truncate" /\ UNCHANGED derivedRows
      /\ stored' = stored \ {x} /\ stood' = stood \ {x} /\ erasing' = erasing \ {x}
      /\ cut' = cut \cup {x} /\ errored' = errored \cup {"short"}
  BY DEF denorm_batch_short, Proceed
<1>2. m # x /\ m \in stood \ erasing /\ RowInv(m)
  BY <1>1 DEF RowsInv
<1>3. RowFine(m)
  BY <1>1, <1>2 DEF RowInv, Past
<1>4. TypeOf[x] # TypeOf[m] => Same(m)' = Same(m)
  BY <1>1 DEF Same
<1>5. RowFine(m)'
  BY <1>1, <1>3, <1>4 DEF RowFine, Tie
<1>6. TypeOf[m] \in Walked => at' # TypeOf[m] /\ at' # CursorOf(TypeOf[m])
  BY <1>1, FollowingIs
<1> QED  BY <1>1, <1>5, <1>6 DEF RowInv, ColumnInv, ColumnFine

\* What goes on to a step that has a claim comes from one that has it.
LEMMA RowsGoOn ==
    ASSUME BackfillTypeOK, RowsInv,
           UNCHANGED <<stored, derivedRows, erasing, stood, cut>>, errored \subseteq errored',
           at' \notin {"POST", "POST cursor", "AGGREGATE", "AGGREGATE cursor", "INSTANCE", "PROGRAM"},
           at \in {"disable", "denorm", "truncate", "rebuild"} \/ at' \in {"enable", "ended", "check"}
    PROVE  RowsInv'
<1> SUFFICES ASSUME NEW m \in stood \ erasing PROVE RowInv(m)'
  BY DEF RowsInv
<1>1. RowInv(m)
  BY DEF RowsInv
<1>2. RowFine(m) => RowFine(m)'
  BY DEF RowFine, Tie, Same
<1>3. at' \in Past(TypeOf[m]) => at \in Past(TypeOf[m])
  BY DEF Past
<1>4. TypeOf[m] \in Walked => at' # TypeOf[m] /\ at' # CursorOf(TypeOf[m])
  BY FollowingIs
<1>5. at' \in Past(TypeOf[m]) => RowFine(m)'
  BY <1>1, <1>2, <1>3 DEF RowInv
<1> QED  BY <1>4, <1>5 DEF RowInv

LEMMA StandingNext ==
    ASSUME BackfillTypeOK, BackfillTypeOK', RowsInv, ColumnsInv, [BackfillNext]_backfillVars
    PROVE  RowsInv' /\ ColumnsInv'
<1> USE DEF rowsVars, taskVars, passVars, Proceed
<1>1. ASSUME NEW m \in Letter, batch_insert_bare(m) PROVE RowsInv' /\ ColumnsInv'
  BY <1>1, RowsGrow DEF batch_insert_bare
<1>2. ASSUME NEW m \in Letter, \/ queue_bare(m) \/ queue_gossip(m) \/ reject_letter(m)
                               \/ drop_duplicate(m) \/ forget_derived(m)
      PROVE RowsInv' /\ ColumnsInv'
  BY <1>2, RowsGrow DEF queue_bare, queue_gossip, reject_letter, drop_duplicate, forget_derived
<1>3. ASSUME NEW m \in Letter, process_letter(m) PROVE RowsInv' /\ ColumnsInv'
  BY <1>3, RowsGrow DEF process_letter
<1>4. ASSUME NEW m \in Letter, forget_letter(m) PROVE RowsInv' /\ ColumnsInv'
  BY <1>4, RowsForgotten
<1>5. CASE check_missing
  <2>1. at' \in {"ended", "POST"} /\ cursor' = 0
    BY <1>5 DEF check_missing, BackfillTypeOK, Walking
  <2>2. ASSUME NEW m \in (stood \ erasing)' PROVE RowInv(m)'
    <3>1. SentAt[m] > 0
      BY BackfillAssumption DEF BackfillTypeOK
    <3>2. After(m)'
      BY <2>1, <3>1 DEF After
    <3> QED  BY <2>1, <3>2, FollowingIs DEF RowInv, Past
  <2> QED  BY <2>1, <2>2, ColumnsLater DEF RowsInv
<1>6. CASE check_fails
  <2>1. at' = "ended" /\ UNCHANGED <<stored, derivedRows, erasing, stood, cut, errored>>
    BY <1>6 DEF check_fails
  <2> QED  BY <2>1, RowsGoOn, ColumnsLater
<1>7. ASSUME NEW type \in Walked, batch_derive(type) PROVE RowsInv' /\ ColumnsInv'
  <2>1. at' \notin {"denorm", "truncate", "rebuild"}
    BY <1>7, FollowingIs DEF batch_derive
  <2> QED  BY <1>7, <2>1, RowsDerived, ColumnsLater
<1>8. ASSUME NEW type \in Walked, batch_cursor(type) PROVE RowsInv' /\ ColumnsInv'
  <2>1. at' \in {type, Following(type)}
    BY <1>8 DEF batch_cursor
  <2>2. at' \notin {"denorm", "truncate", "rebuild"}
    BY <2>1, FollowingIs
  <2> QED  BY <1>8, <2>2, RowsPassed, ColumnsLater
<1>9. ASSUME NEW type \in Swept, sweep(type) PROVE RowsInv' /\ ColumnsInv'
  <2>1. at' \notin {"denorm", "truncate", "rebuild"}
    BY <1>9, FollowingIs DEF sweep
  <2> QED  BY <1>9, <2>1, RowsSwept, ColumnsLater
<1>10. ASSUME NEW type \in Walked \cup Swept, backfill_fails(type) PROVE RowsInv' /\ ColumnsInv'
  <2>1. at' \notin {"denorm", "truncate", "rebuild"}
    BY <1>10, FollowingIs DEF backfill_fails
  <2> QED  BY <1>10, <2>1, RowsFailed, ColumnsLater
<1>11. CASE disable_trigger
  <2>1. /\ at = "disable" /\ at' = "denorm"
        /\ UNCHANGED <<stored, derivedRows, erasing, stood, cut, errored, cursor>>
    BY <1>11 DEF disable_trigger
  <2>2. ASSUME NEW m \in (stood \ erasing)' PROVE ColumnInv(m)'
    <3>1. SentAt[m] > 0 /\ cursor' = 0
      BY <2>1, BackfillAssumption DEF BackfillTypeOK, Walking
    <3> QED  BY <2>1, <3>1 DEF ColumnInv, After
  <2> QED  BY <2>1, <2>2, RowsGoOn DEF ColumnsInv
<1>12. CASE disable_fails
  <2>1. at' = "ended" /\ stood' = {}
    BY <1>12 DEF disable_fails
  <2> QED  BY <2>1 DEF RowsInv, ColumnsInv
<1>13. CASE denorm_batch
  <2>1. at = "denorm" /\ at' \in {"denorm", "truncate"}
        /\ UNCHANGED <<stored, derivedRows, erasing, stood, cut, errored>>
    BY <1>13 DEF denorm_batch
  <2>2. RowsInv'
    BY <2>1, RowsGoOn
  <2> QED  BY <1>13, <2>2, ColumnsFilled
<1>14. CASE denorm_fails
  <2>1. at' = "enable" /\ UNCHANGED <<stored, derivedRows, erasing, stood, cut>>
        /\ errored \subseteq errored'
    BY <1>14 DEF denorm_fails, DenormErrs
  <2> QED  BY <2>1, RowsGoOn, ColumnsLater
<1>15. CASE truncate_counts
  <2>1. /\ at = "truncate" /\ at' = "rebuild"
        /\ UNCHANGED <<stored, owned, derivedRows, erasing, stood, cut, errored>>
    BY <1>15 DEF truncate_counts
  <2>2. RowsInv'
    BY <2>1, RowsGoOn
  <2> QED  BY <2>1, <2>2 DEF ColumnsInv, ColumnInv, ColumnFine, Tie
<1>16. CASE rebuild_counts
  <2>1. at' = "enable" /\ UNCHANGED <<stored, derivedRows, erasing, stood, cut, errored>>
    BY <1>16 DEF rebuild_counts
  <2> QED  BY <2>1, RowsGoOn, ColumnsLater
<1>17. CASE enable_trigger \/ restart_node
  <2>1. stood' = {}
    BY <1>17 DEF enable_trigger, restart_node
  <2> QED  BY <2>1 DEF RowsInv, ColumnsInv
<1>18. CASE UNCHANGED backfillVars
  BY <1>18, RowsGrow DEF backfillVars
<1>19. ASSUME NEW m \in Letter, denorm_batch_short(m) PROVE RowsInv' /\ ColumnsInv'
  BY <1>19, WalkCutShort
<1> QED
  BY <1>1, <1>2, <1>3, <1>4, <1>5, <1>6, <1>7, <1>8, <1>9, <1>10, <1>11, <1>12, <1>13, <1>14,
     <1>15, <1>16, <1>17, <1>18, <1>19 DEF BackfillNext, run_startup_backfill

LEMMA BackfillStart == BackfillInit => BackfillInv
<1> SUFFICES ASSUME BackfillInit PROVE BackfillInv
  OBVIOUS
<1>1. BackfillTypeOK
  BY FS_EmptySet, StepsAre DEF BackfillInit, BackfillTypeOK
<1>2. TriggerInv /\ RowsInv /\ ColumnsInv
  BY DEF BackfillInit, TriggerInv, RowsInv, ColumnsInv
<1>3. CountInv
  <2>1. stored = {} /\ DOMAIN counts = {}
    BY DEF BackfillInit
  <2>2. \A k : Under(k) = {}
    BY <2>1, UnderIs
  <2> QED  BY <2>1, <2>2, FS_EmptySet DEF CountInv, Counted
<1> QED  BY <1>1, <1>2, <1>3 DEF BackfillInv

LEMMA BackfillStep == BackfillInv /\ [BackfillNext]_backfillVars => BackfillInv'
<1> SUFFICES ASSUME BackfillInv, [BackfillNext]_backfillVars PROVE BackfillInv'
  OBVIOUS
<1>1. BackfillTypeOK /\ BackfillTypeOK'
  BY BackfillTypeNext DEF BackfillInv
<1> QED  BY <1>1, TriggerNext, CountNext, StandingNext DEF BackfillInv

\* BackfillRecovers: a pass of the backfill goes on and on, derives and fills what a crash
\* left, and leaves the counts and the trigger as they should be, with the exceptions the
\* property names: for any messages, batches, FORGETs, faults and restarts.
THEOREM StartsRecover == BackfillSpec => BackfillRecovers
<1>1. BackfillInv => StandingAreRecovered
  <2> SUFFICES ASSUME BackfillInv, at \in {"truncate", "rebuild"}, NEW m \in stood \ erasing
               PROVE  /\ \/ m \in derivedRows
                         \/ TypeOf[m] \in errored
                         \/ TypeOf[m] \in Walked
                            /\ \/ \E n \in cut : TypeOf[n] = TypeOf[m]
                               \/ Tie(m, {n \in stored : TypeOf[n] = TypeOf[m]})
                      /\ m \in owned \/ "short" \in errored \/ Tie(m, stored \cup cut)
    BY DEF StandingAreRecovered
  <2>1. RowInv(m) /\ ColumnInv(m)
    BY DEF BackfillInv, RowsInv, ColumnsInv
  <2>2. RowFine(m) /\ ColumnFine(m)
    BY <2>1 DEF RowInv, ColumnInv, Past
  <2> QED  BY <2>2 DEF RowFine, ColumnFine, Same
<1>2. BackfillInv => CountsAreExact
  BY DEF BackfillInv, CountInv, Counted, Under, CountsAreExact
<1>3. BackfillInv => TriggerIsBack
  BY DEF BackfillInv, TriggerInv, TriggerIsBack
<1>4. BackfillInv => BackfillAdvances
  BY StepAdvances DEF BackfillInv
<1>5. BackfillInv /\ [BackfillNext]_backfillVars =>
         [StandingAreRecovered /\ CountsAreExact /\ TriggerIsBack /\ BackfillAdvances]_backfillVars
  BY <1>1, <1>2, <1>3, <1>4
<1> QED
  BY <1>5, BackfillStart, BackfillStep, PTL DEF BackfillSpec, BackfillRecovers

=============================================================================
