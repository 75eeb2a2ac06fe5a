---------------------------- MODULE ChainSyncProofs ----------------------------
(***************************************************************************)
(* ChainSync implements SyncPromise, for any chain, files, limits and      *)
(* faults.  The loop over the indexer's pages needs events at distinct     *)
(* timestamps: it goes on one past the last event of a page.  The scan of  *)
(* the RPC loop confirms what it passes, without that condition.           *)
(***************************************************************************)
EXTENDS ChainSync, WellFoundedInduction, TLAPS

\* What the loop over pages needs.
Distinct ==
    \A d, e \in Event \ Foreign : Position[d] = Position[e] => d = e

\* The steps after a round's events are known.
Round == {"fetch", "filter", "insert", "queue", "confirm", "save"}

\* The range eth_getLogs is asked for is never empty.
RangeInv == pc = "scan" => range >= 1 /\ from >= 1

\* The cycle works beyond the saved position; an indexer without a row in
\* chain_sync_state saves nothing.
AheadInv ==
    /\ source = "indexer" /\ ~ known => saved = 0
    /\ pc # "idle" => saved < from
    /\ pc \in Round => saved <= last
    /\ pc = "scan" => source = "rpc"

\* Every event up to p is settled or among those of this round.
Covered(p) ==
    \A e \in Event \ Foreign : Position[e] <= p => Promise!Settled(e) \/ e \in got

SavedInv == \A e \in Event : Position[e] <= saved => Promise!Settled(e)

ScanInv ==
    pc = "scan" => /\ Covered(from - 1)
                   /\ got # {} => last = from - 1
                   /\ pulled = {} /\ todo = {}

PageInv ==
    pc = "page" => \A e \in Event : Position[e] < from => Promise!Settled(e)

\* What has become of a round's events, step by step.
RoundInv ==
    /\ pc \in Round => Covered(last)
    /\ pc \in Round \ {"fetch"} =>
           \A e \in got \ Garbled : File[e] \in pulled \cup missed
    /\ pc \in {"insert", "queue", "confirm", "save"} =>
           \A f \in pulled : Contents[f] \subseteq messages \cup Spam \cup todo
    /\ pc \in {"confirm", "save"} => todo = {}

SyncInv == TypeOK /\ RangeInv /\ AheadInv /\ SavedInv /\ ScanInv /\ PageInv /\ RoundInv

-----------------------------------------------------------------------------

\* Positions stay on the chain and the range stays within max_block_range,
\* however often it is halved and doubled.
LEMMA TypeStep == TypeOK /\ RangeInv /\ [Next]_vars => TypeOK' /\ RangeInv'
<1> SUFFICES ASSUME TypeOK, RangeInv, [Next]_vars
             PROVE  TypeOK' /\ RangeInv'
  OBVIOUS
<1> USE ConstantsAssumption DEF TypeOK, RangeInv, Pairs
<1>1. CASE new_block
  BY <1>1 DEF new_block, cycleVars, tableVars, logVars
<1>2. ASSUME NEW m \in Msg, gossip(m) \/ process(m) \/ resolve_content(m)
      PROVE  TypeOK' /\ RangeInv'
  BY <1>2 DEF gossip, process, resolve_content, chainVars, cycleVars, logVars
<1>3. CASE rpc_begin
  BY <1>3 DEF rpc_begin, chainVars, tableVars, logVars
<1>4. CASE get_logs_in_range
  <2> DEFINE to == Least(from + range - 1, latest)
  <2>1. to \in 1..Top /\ to + 1 \in 1..(Top + 1)
    BY <1>4 DEF get_logs_in_range, Scanned, Least
  <2>2. /\ Most(range \div 2, MinRange) \in 1..MaxRange
        /\ Least(range * 2, MaxRange) \in 1..MaxRange
    BY <1>4 DEF get_logs_in_range, Most, Least
  <2> HIDE DEF to
  <2>3. range' \in 1..MaxRange /\ from' \in 1..(Top + 1) /\ last' \in 0..Top
    BY <1>4, <2>1, <2>2 DEF get_logs_in_range, Narrow, to
  <2>4. got' \subseteq Event
    BY <1>4 DEF get_logs_in_range
  <2>5. UNCHANGED <<chainVars, known, saved, pc, latest, pulled, todo, chunk, tableVars,
                    logVars, missed, faults>>
    BY <1>4 DEF get_logs_in_range
  <2> QED  BY <2>3, <2>4, <2>5 DEF chainVars, tableVars, logVars
<1>5. CASE get_logs_fails
  <2>1. Most(range \div 2, MinRange) \in 1..MaxRange
    BY <1>5 DEF get_logs_fails, Most
  <2> QED  BY <1>5, <2>1 DEF get_logs_fails, Fault, Narrow, chainVars, tableVars, logVars
<1>6. CASE scan_ends
  BY <1>6 DEF scan_ends, chainVars, cycleVars, tableVars, logVars
<1>7. CASE indexer_begin
  BY <1>7 DEF indexer_begin, chainVars, tableVars, logVars
<1>8. CASE fetch_sync_events
  BY <1>8 DEF fetch_sync_events, Pages, chainVars, tableVars, logVars
<1>9. CASE fetch_ipfs
  BY <1>9 DEF fetch_ipfs, Fault, Named, Files, chainVars, tableVars, logVars
<1>10. CASE filter_new_messages
  <2>1. Collected \subseteq Msg
    BY DEF Collected, Files
  <2> QED  BY <1>10, <2>1 DEF filter_new_messages, Fault, chainVars, tableVars, logVars
<1>11. CASE batch_insert_messages
  BY <1>11 DEF batch_insert_messages, Chunks, chainVars, logVars
<1>12. CASE queue_messages_for_processing
  BY <1>12 DEF queue_messages_for_processing, chainVars, logVars
<1>13. CASE inserted_all
  BY <1>13 DEF inserted_all, chainVars, cycleVars, tableVars, logVars
<1>14. CASE record_confirmations
  <2>1. Confirmations \subseteq Pairs
    BY DEF Confirmations, Publisher, Files
  <2> QED
    BY <1>14, <2>1 DEF record_confirmations, Fault, chainVars, cycleVars, tableVars
<1>15. CASE update_last_rpc_block
  BY <1>15 DEF update_last_rpc_block, chainVars, cycleVars, tableVars, logVars
<1>16. CASE update_last_sync_timestamp
  BY <1>16 DEF update_last_sync_timestamp, chainVars, tableVars, logVars
<1>17. CASE cycle_fails
  BY <1>17 DEF cycle_fails, Fault, chainVars, cycleVars, tableVars, logVars
<1>18. CASE UNCHANGED vars
  BY <1>18 DEF vars, chainVars, cycleVars, tableVars, logVars
<1> QED
  BY <1>1, <1>2, <1>3, <1>4, <1>5, <1>6, <1>7, <1>8, <1>9, <1>10, <1>11, <1>12, <1>13,
     <1>14, <1>15, <1>16, <1>17, <1>18 DEF Next, CycleStep

\* The type invariant, from TypeStep.
THEOREM TypeCorrect == Spec => []TypeOK
<1>1. Init => TypeOK /\ RangeInv
  BY ConstantsAssumption DEF Init, TypeOK, RangeInv, Files, Pairs
<1> QED  BY <1>1, TypeStep, PTL DEF Spec

-----------------------------------------------------------------------------
(***************************************************************************)
(* What an action does to SyncInv besides the types: two lemmas for what   *)
(* all actions share, then one step for each action.                       *)
(***************************************************************************)

\* An event that is settled stays settled.
LEMMA SettledStays ==
  ASSUME messages \subseteq messages', missed \subseteq missed',
         NEW e \in Event, Promise!Settled(e)
  PROVE  Promise!Settled(e)'
BY DEF Promise!Settled

\* When a round's messages are all inserted, every event up to last is settled.
LEMMA RoundSettles ==
  ASSUME TypeOK, RoundInv, pc = "save",
         NEW e \in Event, Position[e] <= last
  PROVE  Promise!Settled(e)
<1>1. CASE e \in Void
  BY <1>1 DEF Promise!Settled
<1>2. CASE e \notin Void
  <2>1. Promise!Settled(e) \/ e \in got \ Garbled
    BY <1>2 DEF RoundInv, Round, Covered, Void
  <2>2. CASE e \in got \ Garbled
    <3>1. File[e] \in pulled \cup missed
      BY <2>2 DEF RoundInv, Round
    <3>2. File[e] \in pulled => Contents[File[e]] \subseteq messages \cup Spam
      BY DEF RoundInv
    <3> QED  BY <3>1, <3>2 DEF Promise!Settled
  <2> QED  BY <2>1, <2>2
<1> QED  BY <1>1, <1>2

\* A cycle that is idle or begins, and actions that leave the cycle alone.
LEMMA QuietStep ==
  ASSUME SyncInv, messages \subseteq messages', missed \subseteq missed',
         UNCHANGED <<source, known, saved, cycleVars>>, pc' \in {pc, "idle"}
  PROVE  AheadInv' /\ SavedInv' /\ ScanInv' /\ PageInv' /\ RoundInv'
<1> USE DEF SyncInv, cycleVars
<1>1. AheadInv'
  BY DEF AheadInv, Round
<1>2. SavedInv'
  BY SettledStays DEF SavedInv
<1>3. ASSUME NEW p, Covered(p) PROVE Covered(p)'
  BY <1>3, SettledStays DEF Covered
<1>4. ScanInv'
  BY SettledStays DEF ScanInv, Covered
<1>5. PageInv'
  BY SettledStays DEF PageInv
<1>6. RoundInv'
  <2>1. (pc \in Round => Covered(last))'
    BY SettledStays DEF RoundInv, Round, Covered
  <2> QED  BY <2>1 DEF RoundInv, Round
<1> QED  BY <1>1, <1>2, <1>4, <1>5, <1>6

LEMMA SyncStep ==
  ASSUME Distinct, SyncInv, TypeOK', RangeInv', [Next]_vars
  PROVE  /\ SyncInv'
         /\ [Promise!Take \/ Promise!Advance]_<<saved, messages, missed>>
<1> USE DEF SyncInv
<1> DEFINE Rest == AheadInv /\ SavedInv /\ ScanInv /\ PageInv /\ RoundInv
<1> SUFFICES /\ Rest'
             /\ [Promise!Take \/ Promise!Advance]_<<saved, messages, missed>>
  OBVIOUS
<1>1. CASE new_block
  BY <1>1, QuietStep DEF new_block, cycleVars, tableVars, chainVars, Promise!Take
<1>2. ASSUME NEW m \in Msg, gossip(m) \/ process(m) \/ resolve_content(m)
      PROVE  /\ Rest'
             /\ [Promise!Take \/ Promise!Advance]_<<saved, messages, missed>>
  BY <1>2, QuietStep DEF gossip, process, resolve_content, cycleVars, chainVars, Promise!Take
<1>3. CASE rpc_begin
  <2> USE <1>3 DEF rpc_begin, chainVars, tableVars
  <2>1. AheadInv' /\ PageInv' /\ RoundInv'
    BY DEF AheadInv, PageInv, RoundInv, Round, TypeOK
  <2>2. SavedInv'
    BY SettledStays DEF SavedInv
  <2>3. ScanInv'
    <3>1. from' - 1 = saved
      BY DEF TypeOK
    <3>2. ASSUME NEW e \in Event, Position[e] <= saved PROVE Promise!Settled(e)'
      BY <3>2, SettledStays DEF SavedInv
    <3> QED  BY <3>1, <3>2 DEF ScanInv, Covered
  <2> QED  BY <2>1, <2>2, <2>3 DEF Promise!Take
<1>4. CASE get_logs_in_range
  <2> USE <1>4 DEF get_logs_in_range, Scanned, chainVars, tableVars
  <2> DEFINE to == Least(from + range - 1, latest)
             logs == {e \in Event : Position[e] \in from..to}
  <2>1. SavedInv'
    BY SettledStays DEF SavedInv
  <2>2. PageInv' /\ RoundInv'
    BY DEF PageInv, RoundInv, Round
  <2>3. to \in Nat /\ to >= from
    BY ConstantsAssumption DEF TypeOK, RangeInv, Least
  <2>4. from <= from'
    BY <2>3 DEF TypeOK
  <2>5. AheadInv'
    BY <2>4 DEF AheadInv, Round, TypeOK
  <2>6. ScanInv'
    <3>1. CASE UNCHANGED <<from, last, got>>
      BY <3>1, SettledStays DEF ScanInv, Covered
    <3>2. CASE got' = got \cup (logs \ Foreign) /\ last' = to /\ from' = to + 1
      <4>1. from' - 1 = to
        BY <2>3, <3>2
      <4>2. ASSUME NEW e \in Event \ Foreign, Position[e] <= to
            PROVE  Promise!Settled(e)' \/ e \in got'
        <5>1. CASE Position[e] \in from..to
          BY <5>1, <3>2
        <5>2. CASE Position[e] \notin from..to
          <6>1. Position[e] <= from - 1
            BY <5>2, <4>2, <2>3, ConstantsAssumption DEF TypeOK
          <6>2. Promise!Settled(e) \/ e \in got
            BY <6>1 DEF ScanInv, Covered
          <6> QED  BY <6>2, <3>2, SettledStays
        <5> QED  BY <5>1, <5>2
      <4> HIDE DEF to, logs
      <4> QED  BY <4>1, <4>2, <3>2 DEF ScanInv, Covered
    <3> QED  BY <3>1, <3>2
  <2> QED  BY <2>1, <2>2, <2>5, <2>6 DEF Promise!Take
<1>5. CASE get_logs_fails
  <2> USE <1>5 DEF get_logs_fails, chainVars, tableVars
  <2>1. AheadInv' /\ PageInv' /\ RoundInv'
    BY DEF AheadInv, PageInv, RoundInv, Round
  <2>2. SavedInv' /\ ScanInv'
    BY SettledStays DEF SavedInv, ScanInv, Covered
  <2> QED  BY <2>1, <2>2 DEF Promise!Take
<1>6. CASE scan_ends
  <2> USE <1>6 DEF scan_ends, chainVars, tableVars, cycleVars
  <2>1. SavedInv'
    BY SettledStays DEF SavedInv
  <2>2. pc' \in Round => last = from - 1 /\ Covered(last)
    BY DEF ScanInv, Round
  <2>3. AheadInv' /\ PageInv' /\ ScanInv'
    BY <2>2 DEF AheadInv, PageInv, ScanInv, Round, TypeOK
  <2>4. RoundInv'
    <3>1. (pc \in Round => Covered(last))'
      BY <2>2, SettledStays DEF Covered, Round
    <3>2. pc' = "save" => got \subseteq Garbled
      OBVIOUS
    <3>3. pulled = {} /\ todo = {}
      BY DEF ScanInv
    <3> QED  BY <3>1, <3>2, <3>3 DEF RoundInv, Round
  <2> QED  BY <2>1, <2>3, <2>4 DEF Promise!Take
<1>7. CASE indexer_begin
  <2> USE <1>7 DEF indexer_begin, chainVars, tableVars
  <2>1. AheadInv'
    BY DEF AheadInv, Round, TypeOK
  <2>2. SavedInv'
    BY SettledStays DEF SavedInv
  <2>3. PageInv'
    <3>1. from' = saved + 1
      BY DEF AheadInv
    <3>2. ASSUME NEW e \in Event, Position[e] < from' PROVE Promise!Settled(e)'
      <4>1. Position[e] <= saved
        BY <3>1, <3>2, ConstantsAssumption DEF TypeOK
      <4> QED  BY <4>1, SettledStays DEF SavedInv
    <3> QED  BY <3>2 DEF PageInv
  <2>4. ScanInv' /\ RoundInv'
    BY DEF ScanInv, RoundInv, Round
  <2> QED  BY <2>1, <2>2, <2>3, <2>4 DEF Promise!Take
<1>8. CASE fetch_sync_events
  <2> USE DEF chainVars, tableVars
  <2>1. PICK P \in Pages :
            /\ got' = P
            /\ IF P = {}
               THEN pc' = "idle" /\ last' = last
               ELSE /\ pc' = "fetch"
                    /\ \E e \in P : /\ \A p \in P : Position[p] <= Position[e]
                                    /\ last' = Position[e]
    BY <1>8 DEF fetch_sync_events
  <2>2. /\ pc = "page"
        /\ UNCHANGED <<source, known, saved, from, messages, missed>>
    BY <1>8 DEF fetch_sync_events
  <2>3. SavedInv'
    BY <2>2, SettledStays DEF SavedInv
  <2>4. PageInv' /\ ScanInv'
    BY <2>1 DEF PageInv, ScanInv
  <2>5. CASE P = {}
    BY <2>1, <2>2, <2>3, <2>4, <2>5 DEF AheadInv, RoundInv, Round, Promise!Take
  <2>6. CASE P # {}
    <3>1. PICK d \in P : (\A p \in P : Position[p] <= Position[d]) /\ last' = Position[d]
      BY <2>1, <2>6
    <3>2. P \subseteq {e \in Event \ Foreign : Position[e] \in from..latest}
      BY DEF Pages
    <3>3. \A p \in P : \A e \in {x \in Event \ Foreign : Position[x] \in from..latest} \ P :
              Position[p] <= Position[e]
      BY DEF Pages
    <3>4. AheadInv'
      BY <2>1, <2>2, <2>6, <3>1, <3>2, ConstantsAssumption DEF AheadInv, Round, TypeOK
    <3>5. Covered(last)'
      <4> SUFFICES ASSUME NEW e \in Event \ Foreign, Position[e] <= last'
                   PROVE  Promise!Settled(e)' \/ e \in got'
        BY DEF Covered
      <4>1. CASE Position[e] < from
        BY <4>1, <2>2, SettledStays DEF PageInv
      <4>2. CASE ~ (Position[e] < from)
        <5>1. Position[e] \in from..latest
          BY <4>2, <3>1, <3>2, ConstantsAssumption DEF TypeOK
        <5>2. e \notin P => Position[d] <= Position[e]
          BY <3>3, <5>1
        <5>3. e \notin P => Position[d] = Position[e]
          BY <5>2, <3>1, <3>2, ConstantsAssumption DEF TypeOK
        <5>4. e \notin P => d = e
          BY <5>3, <3>2 DEF Distinct
        <5> QED  BY <5>4, <2>1
      <4> QED  BY <4>1, <4>2
    <3>6. RoundInv'
      BY <2>1, <2>6, <3>5 DEF RoundInv, Round
    <3> QED  BY <2>2, <2>3, <2>4, <3>4, <3>6 DEF Promise!Take
  <2> QED  BY <2>5, <2>6
<1>9. CASE fetch_ipfs
  <2> USE <1>9 DEF fetch_ipfs, chainVars, tableVars
  <2>1. AheadInv' /\ PageInv' /\ ScanInv'
    BY DEF AheadInv, PageInv, ScanInv, Round
  <2>2. SavedInv'
    BY SettledStays DEF SavedInv
  <2>3. (pc \in Round => Covered(last))'
    BY SettledStays DEF RoundInv, Round, Covered
  <2>4. \A e \in got \ Garbled : File[e] \in (pulled \cup missed)'
    BY DEF Named
  <2>5. RoundInv'
    BY <2>3, <2>4 DEF RoundInv
  <2> QED  BY <2>1, <2>2, <2>5 DEF Promise!Take
<1>10. CASE filter_new_messages
  <2> USE <1>10 DEF filter_new_messages, chainVars, tableVars
  <2>1. AheadInv' /\ PageInv' /\ ScanInv'
    BY DEF AheadInv, PageInv, ScanInv, Round
  <2>2. SavedInv'
    BY SettledStays DEF SavedInv
  <2>3. (pc \in Round => Covered(last))'
    BY SettledStays DEF RoundInv, Round, Covered
  <2>4. \A f \in pulled : Contents[f] \subseteq (messages \cup Spam \cup todo)'
    BY DEF Collected
  <2>5. RoundInv'
    BY <2>3, <2>4 DEF RoundInv, Round
  <2> QED  BY <2>1, <2>2, <2>5 DEF Promise!Take
<1>11. CASE batch_insert_messages
  <2> USE DEF chainVars
  <2>1. PICK C \in Chunks : todo' = todo \ C /\ messages' = messages \cup C
    BY <1>11 DEF batch_insert_messages
  <2>2. /\ pc = "insert" /\ pc' = "queue"
        /\ UNCHANGED <<source, known, saved, from, last, got, pulled, missed>>
    BY <1>11 DEF batch_insert_messages
  <2>3. messages \subseteq messages'
    BY <2>1
  <2>4. AheadInv' /\ PageInv' /\ ScanInv'
    BY <2>2 DEF AheadInv, PageInv, ScanInv, Round
  <2>5. SavedInv'
    BY <2>2, <2>3, SettledStays DEF SavedInv
  <2>6. (pc \in Round => Covered(last))'
    BY <2>2, <2>3, SettledStays DEF RoundInv, Round, Covered
  <2>7. RoundInv'
    BY <2>1, <2>2, <2>6 DEF RoundInv, Round
  <2> QED  BY <2>2, <2>3, <2>4, <2>5, <2>7 DEF Promise!Take
<1>12. CASE queue_messages_for_processing
  <2> USE <1>12 DEF queue_messages_for_processing, chainVars
  <2>1. AheadInv' /\ PageInv' /\ ScanInv'
    BY DEF AheadInv, PageInv, ScanInv, Round
  <2>2. SavedInv' /\ (pc \in Round => Covered(last))'
    BY SettledStays DEF SavedInv, RoundInv, Round, Covered
  <2>3. RoundInv'
    BY <2>2 DEF RoundInv, Round
  <2> QED  BY <2>1, <2>2, <2>3 DEF Promise!Take
<1>13. CASE inserted_all
  <2> USE <1>13 DEF inserted_all, chainVars, cycleVars, tableVars
  <2>1. AheadInv' /\ PageInv' /\ ScanInv'
    BY DEF AheadInv, PageInv, ScanInv, Round
  <2>2. SavedInv' /\ (pc \in Round => Covered(last))'
    BY SettledStays DEF SavedInv, RoundInv, Round, Covered
  <2>3. RoundInv'
    BY <2>2 DEF RoundInv, Round
  <2> QED  BY <2>1, <2>2, <2>3 DEF Promise!Take
<1>14. CASE record_confirmations
  <2> USE <1>14 DEF record_confirmations, chainVars, cycleVars, tableVars
  <2>1. AheadInv' /\ PageInv' /\ ScanInv'
    BY DEF AheadInv, PageInv, ScanInv, Round
  <2>2. SavedInv' /\ (pc \in Round => Covered(last))'
    BY SettledStays DEF SavedInv, RoundInv, Round, Covered
  <2>3. RoundInv'
    BY <2>2 DEF RoundInv, Round
  <2> QED  BY <2>1, <2>2, <2>3 DEF Promise!Take
<1>15. CASE update_last_rpc_block
  <2> USE <1>15 DEF update_last_rpc_block, chainVars, cycleVars, tableVars
  <2>1. saved <= last
    BY DEF AheadInv, Round
  <2>2. \A e \in Event : Position[e] <= last => Promise!Settled(e)
    BY RoundSettles
  <2>3. \A e \in Event : Position[e] <= last => Promise!Settled(e)'
    BY <2>2, SettledStays
  <2>4. AheadInv' /\ SavedInv' /\ ScanInv' /\ PageInv' /\ RoundInv'
    BY <2>3 DEF AheadInv, SavedInv, ScanInv, PageInv, RoundInv, Round
  <2>5. last \in Nat /\ saved \in Nat
    BY ConstantsAssumption DEF TypeOK
  <2>6. Promise!Advance
    BY <2>1, <2>2, <2>5 DEF Promise!Advance
  <2> QED  BY <2>4, <2>6
<1>16. CASE update_last_sync_timestamp
  <2> USE <1>16 DEF update_last_sync_timestamp, chainVars, tableVars
  <2>1. saved <= last
    BY DEF AheadInv, Round
  <2>2. \A e \in Event : Position[e] <= last => Promise!Settled(e)'
    BY RoundSettles, SettledStays
  <2>3. AheadInv'
    BY <2>1 DEF AheadInv, Round, TypeOK
  <2>4. SavedInv'
    BY <2>2, SettledStays DEF SavedInv
  <2>5. PageInv'
    BY <2>2, ConstantsAssumption DEF PageInv, TypeOK
  <2>6. ScanInv' /\ RoundInv'
    BY DEF ScanInv, RoundInv, Round
  <2>7. \A e \in Event : Position[e] <= saved' => Promise!Settled(e)
    BY RoundSettles DEF SavedInv
  <2>8. saved' \in Nat /\ saved' >= saved
    BY <2>1, ConstantsAssumption DEF TypeOK
  <2>9. Promise!Advance
    BY <2>7, <2>8 DEF Promise!Advance
  <2> QED  BY <2>3, <2>4, <2>5, <2>6, <2>9
<1>17. CASE cycle_fails
  BY <1>17, QuietStep DEF cycle_fails, chainVars, tableVars, cycleVars, Promise!Take
<1>18. CASE UNCHANGED vars
  BY <1>18, QuietStep DEF vars, chainVars, tableVars, cycleVars, Promise!Take
<1> QED
  BY <1>1, <1>2, <1>3, <1>4, <1>5, <1>6, <1>7, <1>8, <1>9, <1>10, <1>11, <1>12, <1>13,
     <1>14, <1>15, <1>16, <1>17, <1>18 DEF Next, CycleStep

\* ChainSync implements SyncPromise: at no step, whatever fails, does the saved
\* position pass an event whose messages are neither stored nor out of reach.
THEOREM PromiseKept ==
  ASSUME Distinct
  PROVE  Spec => KeepsPromise
<1>1. Init => SyncInv /\ Promise!Init
  <2>1. Init => TypeOK /\ RangeInv
    BY ConstantsAssumption DEF Init, TypeOK, RangeInv, Files, Pairs
  <2>2. Init => SavedInv
    BY ConstantsAssumption DEF Init, SavedInv
  <2> QED
    BY <2>1, <2>2 DEF Init, SyncInv, AheadInv, ScanInv, PageInv, RoundInv, Round,
                      Promise!Init
<1>2. TypeOK /\ RangeInv /\ [Next]_vars => TypeOK' /\ RangeInv'
  BY TypeStep
<1>3. SyncInv /\ [Next]_vars =>
          SyncInv' /\ [Promise!Take \/ Promise!Advance]_<<saved, messages, missed>>
  BY <1>2, SyncStep DEF SyncInv
<1> QED  BY <1>1, <1>3, PTL DEF Spec, KeepsPromise, Promise!Spec

-----------------------------------------------------------------------------
(***************************************************************************)
(* PassedIsConfirmed, for any chain: several events may share a block.     *)
(***************************************************************************)

\* Each message of an event's file has, or was to have, a confirmation.
Linked(e) ==
    File[e] \in missed \/
        \A m \in Contents[File[e]] :
            \E d \in Event : File[d] = File[e] /\ <<d, m>> \in confirmed \cup unconfirmed

\* Every event up to p is linked or among those of this round.
LinkedTo(p) == \A e \in Event \ Void : Position[e] <= p => Linked(e) \/ e \in got

\* What has become of the events of an RPC round, step by step.
ConfirmInv ==
    source = "rpc" =>
        /\ \A e \in Event \ Void : Position[e] <= saved => Linked(e)
        /\ pc # "page"
        /\ pc = "scan" => LinkedTo(from - 1) /\ (got # {} => last = from - 1)
        /\ pc \in Round => LinkedTo(last)
        /\ pc \in Round \ {"fetch"} => \A e \in got \ Garbled : File[e] \in pulled \cup missed
        /\ pc = "save" => \A e \in got \ Garbled : Linked(e)

\* A link is never taken back.
LEMMA LinkStays ==
  ASSUME missed \subseteq missed', confirmed \subseteq confirmed',
         unconfirmed \subseteq unconfirmed', NEW e \in Event, Linked(e)
  PROVE  Linked(e)'
BY DEF Linked

\* Some event of a set is the last.
LEMMA LastEvent ==
  ASSUME NEW E \in SUBSET Event, E # {}
  PROVE  \E e \in E : \A d \in E : Position[d] <= Position[e]
<1> DEFINE R == OpToRel(<, Nat)
           Rest == {Top - Position[e] : e \in E}
<1>1. \A e \in E : Position[e] \in 1..Top /\ Top \in Nat
  BY ConstantsAssumption
<1>2. Rest \subseteq Nat /\ Rest # {}
  BY <1>1
<1>3. IsWellFoundedOn(R, Nat)
  BY NatLessThanWellFounded
<1>4. PICK n \in Rest : \A m \in Rest : <<m, n>> \notin R
  <2> HIDE DEF R, Rest
  <2> QED  BY <1>2, <1>3, WFMin
<1>5. \A m \in Rest : ~ (m < n)
  <2>1. \A x, y \in Nat : x < y => <<x, y>> \in R
    BY DEF OpToRel
  <2> HIDE DEF R, Rest
  <2> QED  BY <1>2, <1>4, <2>1
<1>6. PICK e \in E : n = Top - Position[e]
  BY <1>4
<1>7. \A d \in E : ~ (Top - Position[d] < Top - Position[e])
  BY <1>5, <1>6
<1> QED  BY <1>1, <1>7

\* Every file that was fetched has an event that published it.
LEMMA EachIsPublished ==
  ASSUME TypeOK, NEW e \in got \ Garbled
  PROVE  \E d \in Publisher(File[e]) : d \in Event /\ File[d] = File[e]
<1> DEFINE E == {d \in got \ Garbled : File[d] = File[e]}
<1>1. E \in SUBSET Event /\ E # {}
  BY DEF TypeOK
<1>2. PICK d \in E : \A c \in E : Position[c] <= Position[d]
  <2> HIDE DEF E
  <2> QED  BY <1>1, LastEvent
<1> QED  BY <1>1, <1>2 DEF Publisher

\* Steps inside a round, and those that leave the cycle alone or end it.
LEMMA RoundGoesOn ==
  ASSUME TypeOK, ConfirmInv, missed \subseteq missed', confirmed \subseteq confirmed',
         unconfirmed \subseteq unconfirmed',
         UNCHANGED <<source, saved, from, last, got, pulled>>,
         \/ pc' \in {pc, "idle"}
         \/ pc \in Round \ {"fetch"} /\ pc' \in Round \ {"fetch", "save"}
  PROVE  ConfirmInv'
<1> SUFFICES ASSUME source = "rpc" PROVE ConfirmInv'
  BY DEF ConfirmInv
<1>1. \A e \in Event \ Void : Position[e] <= saved => Linked(e)'
  BY LinkStays DEF ConfirmInv
<1>2. LinkedTo(from - 1) => LinkedTo(from - 1)'
  BY LinkStays DEF LinkedTo
<1>3. LinkedTo(last) => LinkedTo(last)'
  BY LinkStays DEF LinkedTo
<1>4. pc' = "save" => \A e \in got \ Garbled : Linked(e)'
  BY LinkStays DEF ConfirmInv, TypeOK, Round
<1>5. pc' # "page" /\ (pc' = "scan" => pc = "scan") /\ (pc' = "fetch" => pc = "fetch")
  BY DEF ConfirmInv, Round
<1>6. /\ pc' \in Round => pc \in Round
      /\ pc' \in Round \ {"fetch"} => pc \in Round \ {"fetch"}
  BY DEF Round
<1> QED  BY <1>1, <1>2, <1>3, <1>4, <1>5, <1>6 DEF ConfirmInv

LEMMA ConfirmStep ==
  ASSUME TypeOK, RangeInv, ConfirmInv, [Next]_vars
  PROVE  ConfirmInv'
<1>1. CASE new_block \/ UNCHANGED vars
  BY <1>1, RoundGoesOn DEF new_block, vars, chainVars, cycleVars, logVars
<1>2. ASSUME NEW m \in Msg, gossip(m) \/ process(m) \/ resolve_content(m)
      PROVE  ConfirmInv'
  BY <1>2, RoundGoesOn DEF gossip, process, resolve_content, chainVars, cycleVars, logVars
<1>3. CASE rpc_begin
  <2> USE <1>3 DEF rpc_begin, chainVars, logVars
  <2>1. from' - 1 = saved
    BY DEF TypeOK
  <2>2. \A e \in Event \ Void : Position[e] <= saved => Linked(e)'
    BY LinkStays DEF ConfirmInv
  <2> QED  BY <2>1, <2>2 DEF ConfirmInv, LinkedTo, Round
<1>4. CASE get_logs_in_range
  <2> USE <1>4 DEF get_logs_in_range, Scanned, chainVars, logVars
  <2> DEFINE to == Least(from + range - 1, latest)
             logs == {e \in Event : Position[e] \in from..to}
  <2> SUFFICES ASSUME source = "rpc" PROVE ConfirmInv'
    BY DEF ConfirmInv
  <2>1. \A e \in Event : Linked(e) => Linked(e)'
    BY LinkStays
  <2>2. \A e \in Event \ Void : Position[e] <= saved => Linked(e)'
    BY <2>1 DEF ConfirmInv
  <2>3. to \in Nat /\ to >= from
    BY ConstantsAssumption DEF TypeOK, RangeInv, Least
  <2>4. LinkedTo(from - 1)' /\ (got' # {} => last' = from' - 1)
    <3>1. CASE UNCHANGED <<from, last, got>>
      BY <3>1, <2>1 DEF ConfirmInv, LinkedTo
    <3>2. CASE got' = got \cup (logs \ Foreign) /\ last' = to /\ from' = to + 1
      <4>1. from' - 1 = to
        BY <2>3, <3>2
      <4>2. ASSUME NEW e \in Event \ Void, Position[e] <= to
            PROVE  Linked(e)' \/ e \in got'
        <5>1. CASE Position[e] \in from..to
          BY <5>1, <3>2 DEF Void
        <5>2. CASE Position[e] \notin from..to
          <6>1. Position[e] <= from - 1
            BY <5>2, <4>2, <2>3, ConstantsAssumption DEF TypeOK
          <6>2. Linked(e) \/ e \in got
            BY <6>1 DEF ConfirmInv, LinkedTo
          <6> QED  BY <6>2, <3>2, <2>1
        <5> QED  BY <5>1, <5>2
      <4> HIDE DEF to, logs
      <4> QED  BY <4>1, <4>2, <3>2 DEF LinkedTo
    <3> QED  BY <3>1, <3>2
  <2> QED  BY <2>2, <2>4 DEF ConfirmInv, Round
<1>5. CASE get_logs_fails
  BY <1>5, RoundGoesOn DEF get_logs_fails, chainVars, logVars
<1>6. CASE scan_ends
  <2> USE <1>6 DEF scan_ends, chainVars, cycleVars, logVars
  <2>1. \A e \in Event : Linked(e) => Linked(e)'
    BY LinkStays
  <2>2. source = "rpc" /\ got # {} => LinkedTo(last)'
    BY <2>1 DEF ConfirmInv, LinkedTo
  <2>3. pc' = "save" => got \ Garbled = {}
    OBVIOUS
  <2>4. pc' \in {"idle", "save", "fetch"} /\ (got = {} => pc' = "idle")
    OBVIOUS
  <2> QED  BY <2>1, <2>2, <2>3, <2>4 DEF ConfirmInv, Round
<1>7. CASE indexer_begin
  BY <1>7 DEF indexer_begin, chainVars, ConfirmInv
<1>8. CASE fetch_sync_events
  BY <1>8 DEF fetch_sync_events, chainVars, ConfirmInv
<1>9. CASE fetch_ipfs
  <2> USE <1>9 DEF fetch_ipfs, chainVars, logVars
  <2>1. \A e \in Event : Linked(e) => Linked(e)'
    BY LinkStays
  <2>2. \A e \in got \ Garbled : File[e] \in (pulled \cup missed)'
    BY DEF Named
  <2> QED  BY <2>1, <2>2 DEF ConfirmInv, LinkedTo, Round
<1>10. CASE filter_new_messages \/ batch_insert_messages \/ queue_messages_for_processing
  BY <1>10, RoundGoesOn DEF filter_new_messages, batch_insert_messages,
                            queue_messages_for_processing, chainVars, logVars, Round
<1>11. CASE inserted_all
  BY <1>11, RoundGoesOn DEF inserted_all, chainVars, cycleVars, logVars, Round, ConfirmInv
<1>12. CASE record_confirmations
  <2> USE <1>12 DEF record_confirmations, chainVars, cycleVars
  <2>1. \A e \in Event : Linked(e) => Linked(e)'
    BY LinkStays
  <2>2. Confirmations \subseteq (confirmed \cup unconfirmed)'
    OBVIOUS
  <2>3. ASSUME source = "rpc", NEW e \in got \ Garbled PROVE Linked(e)'
    <3>1. e \in Event /\ File[e] \in pulled \cup missed
      BY <2>3 DEF ConfirmInv, TypeOK, Round
    <3>2. CASE File[e] \in pulled
      <4>1. PICK d \in Publisher(File[e]) : d \in Event /\ File[d] = File[e]
        BY EachIsPublished
      <4>2. \A m \in Contents[File[e]] : <<d, m>> \in Confirmations
        BY <3>2, <4>1 DEF Confirmations
      <4> QED  BY <4>1, <4>2, <2>2 DEF Linked
    <3> QED  BY <3>1, <3>2 DEF Linked
  <2> QED  BY <2>1, <2>3 DEF ConfirmInv, LinkedTo, Round
<1>13. CASE update_last_rpc_block
  <2> USE <1>13 DEF update_last_rpc_block, chainVars, cycleVars, logVars
  <2>1. \A e \in Event \ Void : Position[e] <= last => Linked(e)
    BY DEF ConfirmInv, LinkedTo, Round, Void
  <2>2. \A e \in Event \ Void : Position[e] <= last => Linked(e)'
    BY <2>1, LinkStays
  <2> QED  BY <2>2 DEF ConfirmInv, Round
<1>14. CASE update_last_sync_timestamp
  BY <1>14 DEF update_last_sync_timestamp, chainVars, ConfirmInv
<1>15. CASE cycle_fails
  BY <1>15, RoundGoesOn DEF cycle_fails, chainVars, cycleVars, logVars
<1> QED
  BY <1>1, <1>2, <1>3, <1>4, <1>5, <1>6, <1>7, <1>8, <1>9, <1>10, <1>11, <1>12, <1>13,
     <1>14, <1>15 DEF Next, CycleStep

\* When the saved block has passed an event, each message of its file is linked
\* to a transaction that published it: whatever ranges the scan takes, events
\* that share a block or a file, failures and restarts.
THEOREM PassedHasItsLink == Spec => []PassedIsConfirmed
<1>1. Init => TypeOK /\ RangeInv /\ ConfirmInv
  BY ConstantsAssumption DEF Init, TypeOK, RangeInv, Files, Pairs, ConfirmInv, Round
<1>2. TypeOK /\ RangeInv /\ [Next]_vars => TypeOK' /\ RangeInv'
  BY TypeStep
<1>3. TypeOK /\ RangeInv /\ ConfirmInv /\ [Next]_vars => ConfirmInv'
  BY ConfirmStep
<1>4. ConfirmInv => PassedIsConfirmed
  BY DEF ConfirmInv, PassedIsConfirmed, Linked
<1> QED  BY <1>1, <1>2, <1>3, <1>4, PTL DEF Spec

================================================================================
