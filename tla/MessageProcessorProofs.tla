------------------------ MODULE MessageProcessorProofs ------------------------
(***************************************************************************)
(* Proofs about MessageProcessor for every set of messages, every bound    *)
(* and every number of faults: first what holds in every state, then that  *)
(* it implements MessageLifecycle, as each of its steps takes every        *)
(* message along its life or leaves it where it is.                        *)
(***************************************************************************)
EXTENDS MessageProcessor, TLAPS

(***************************************************************************)
(* Type correctness.                                                       *)
(***************************************************************************)

\* The initial state is well typed.
LEMMA TypeInit == Init => TypeOK
BY ConstantsAssumption DEF Init, TypeOK, Tasks

\* Every step keeps the state well typed, whatever it interleaves with.
LEMMA TypeNext == TypeOK /\ [Next]_vars => TypeOK'
<1> SUFFICES ASSUME TypeOK, [Next]_vars PROVE TypeOK'
  OBVIOUS
<1> USE ConstantsAssumption DEF TypeOK, Tasks, Running, Results,
       rowVars, tableVars, syncVars, batchVars, forgetVars, histVars
<1>1. ASSUME NEW m \in Msg, insert_pending_message(m) PROVE TypeOK'
  BY <1>1 DEF insert_pending_message, InsertPending
<1>2. ASSUME NEW m \in Msg, post_message(m) PROVE TypeOK'
  BY <1>2 DEF post_message, InsertPending
<1>3. ASSUME NEW m \in Msg, batch_insert_messages(m) PROVE TypeOK'
  BY <1>3 DEF batch_insert_messages
<1>4. ASSUME NEW m \in Msg, queue_messages_for_processing(m) PROVE TypeOK'
  BY <1>4 DEF queue_messages_for_processing, InsertPending
<1>5. ASSUME NEW m \in Msg, queue_messages_fails(m) PROVE TypeOK'
  BY <1>5 DEF queue_messages_fails, Fault
<1>6. ASSUME NEW m \in Msg, content_fetch(m) PROVE TypeOK'
  BY <1>6 DEF content_fetch, Refresh
<1>7. ASSUME NEW m \in Msg, resolve_and_update_content(m) PROVE TypeOK'
  BY <1>7 DEF resolve_and_update_content, Refresh
<1>8. ASSUME NEW m \in Msg, content_fetch_fails(m) PROVE TypeOK'
  BY <1>8 DEF content_fetch_fails, Fault
<1>9. ASSUME NEW m \in Msg, batch_insert_unfiltered(m) PROVE TypeOK'
  BY <1>9 DEF batch_insert_unfiltered, Fault
<1>10. ASSUME NEW m \in Msg, get_unfetched_messages(m) PROVE TypeOK'
  BY <1>10 DEF get_unfetched_messages
<1>11. ASSUME NEW m \in Msg, resolve_fails(m) PROVE TypeOK'
  BY <1>11 DEF resolve_fails, Fault
<1>12. ASSUME NEW m \in Msg, elapse(m) PROVE TypeOK'
  BY <1>12 DEF elapse
<1>13. ASSUME NEW m \in Msg, parse_fails(m) PROVE TypeOK'
  BY <1>13 DEF parse_fails, Goto, MayStart
<1>14. ASSUME NEW m \in Msg, process_single_message(m) PROVE TypeOK'
  BY <1>14 DEF process_single_message, Goto, MayStart
<1>15. ASSUME NEW m \in Msg, reject_message(m) PROVE TypeOK'
  BY <1>15 DEF reject_message, Goto, MayStart
<1>16. ASSUME NEW m \in Msg, handler_process(m) PROVE TypeOK'
  BY <1>16 DEF handler_process, Goto
<1>17. ASSUME NEW m \in Msg, store_processed_message(m) PROVE TypeOK'
  BY <1>17 DEF store_processed_message, Goto
<1>18. ASSUME NEW m \in Msg, cascade_forget(m) PROVE TypeOK'
  BY <1>18 DEF cascade_forget, Goto, EraseRows, AmendsOf, VmUpdatesOf
<1>19. ASSUME NEW m \in Msg, delete_message(m) PROVE TypeOK'
  BY <1>19 DEF delete_message, Goto
<1>20. ASSUME NEW m \in Msg, defer_pending(m) PROVE TypeOK'
  BY <1>20 DEF defer_pending, Goto, MayStart, Fault
<1>21. ASSUME NEW m \in Msg, handler_db_error(m) PROVE TypeOK'
  BY <1>21 DEF handler_db_error, Goto, Fault, PartialWrites, PartialErase, EraseRows, AmendsOf, VmUpdatesOf
<1>22. ASSUME NEW m \in Msg, task_error(m) PROVE TypeOK'
  BY <1>22 DEF task_error, Goto, Fault, PartialWrites, PartialErase, EraseRows, AmendsOf, VmUpdatesOf
<1>23. ASSUME NEW m \in Msg, result_not_written(m) PROVE TypeOK'
  BY <1>23 DEF result_not_written, Goto, Fault
<1>24. ASSUME NEW m \in Msg, collect_processed(m) PROVE TypeOK'
  BY <1>24 DEF collect_processed, Goto
<1>25. ASSUME NEW m \in Msg, collect_deferred(m) PROVE TypeOK'
  BY <1>25 DEF collect_deferred, Goto
<1>26. ASSUME NEW m \in Msg, move_to_rejected(m) PROVE TypeOK'
  BY <1>26 DEF move_to_rejected, Goto, DeletePending
<1>27. ASSUME NEW m \in Msg, update_retry(m) PROVE TypeOK'
  BY <1>27 DEF update_retry, Goto
<1>28. ASSUME NEW m \in Msg, NEW h \in Msg, mark_forgotten(m, h) PROVE TypeOK'
  BY <1>28 DEF mark_forgotten, Goto
<1>29. CASE process_batch
  BY <1>29 DEF process_batch, DueRows, batch_check_duplicates, batch_check_forgotten
<1>30. CASE batch_delete_pending
  BY <1>30 DEF batch_delete_pending, EndBatch, DeletePending
<1>31. CASE batch_delete_fails
  BY <1>31 DEF batch_delete_fails, EndBatch, Fault
<1>32. CASE crash
  BY <1>32 DEF crash, EndBatch, Fault
<1>33. CASE UNCHANGED vars
  BY <1>33 DEF vars
<1>. QED
  BY <1>1, <1>2, <1>3, <1>4, <1>5, <1>6, <1>7, <1>8, <1>9, <1>10, <1>11, <1>12, <1>13, <1>14,
     <1>15, <1>16, <1>17, <1>18, <1>19, <1>20, <1>21, <1>22, <1>23, <1>24, <1>25, <1>26, <1>27,
     <1>28, <1>29, <1>30, <1>31, <1>32, <1>33
     DEF Next, Ingress, Services, TaskStep, TaskFault, Collect

\* Every reachable state is well typed: a flag of a pending row exists only
\* with the row, a NULL content only with the row of messages.
THEOREM TypeCorrect == Spec => []TypeOK
<1>1. Init => TypeOK
  BY TypeInit
<1>2. TypeOK /\ [Next]_vars => TypeOK'
  BY TypeNext
<1>. QED
  BY <1>1, <1>2, PTL DEF Spec

-----------------------------------------------------------------------------
(***************************************************************************)
(* Marks of FORGETs stay, and tell what may have lost its row.             *)
(***************************************************************************)

\* No step deletes a row of forgotten_messages.
LEMMA MarksStay == [Next]_vars => forgotten \subseteq forgotten'
<1> SUFFICES ASSUME [Next]_vars PROVE forgotten \subseteq forgotten'
  OBVIOUS
<1> USE DEF tableVars
<1>1. ASSUME NEW m \in Msg, Ingress(m) \/ elapse(m) PROVE forgotten' = forgotten
  BY <1>1 DEF Ingress, insert_pending_message, post_message, batch_insert_messages,
       batch_insert_unfiltered, elapse
<1>2. ASSUME NEW m \in Msg, Services(m) PROVE forgotten' = forgotten
  BY <1>2 DEF Services, queue_messages_for_processing, queue_messages_fails,
       get_unfetched_messages, content_fetch, content_fetch_fails,
       resolve_and_update_content, resolve_fails
<1>3. ASSUME NEW m \in Msg, TaskStep(m) PROVE forgotten \subseteq forgotten'
  BY <1>3 DEF TaskStep, parse_fails, process_single_message, reject_message, handler_process,
       store_processed_message, mark_forgotten, cascade_forget, EraseRows, delete_message
<1>4. ASSUME NEW m \in Msg, TaskFault(m) PROVE forgotten \subseteq forgotten'
  BY <1>4 DEF TaskFault, defer_pending, handler_db_error, task_error, PartialWrites,
       PartialErase, EraseRows, result_not_written
<1>5. ASSUME NEW m \in Msg, Collect(m) PROVE forgotten' = forgotten
  BY <1>5 DEF Collect, collect_processed, collect_deferred, move_to_rejected, update_retry
<1>6. CASE process_batch \/ batch_delete_pending \/ batch_delete_fails \/ crash
  BY <1>6 DEF process_batch, batch_delete_pending, batch_delete_fails, crash
<1>7. CASE UNCHANGED vars
  BY <1>7 DEF vars
<1>. QED
  BY <1>1, <1>2, <1>3, <1>4, <1>5, <1>6, <1>7 DEF Next

\* So an amendment of a forgotten VM remains one.
LEMMA OrphansStay == [Next]_vars => Orphaned \subseteq Orphaned'
<1> SUFFICES ASSUME [Next]_vars PROVE Orphaned \subseteq Orphaned'
  OBVIOUS
<1>. QED
  BY MarksStay DEF Orphaned, IsUpdate

\* A FORGET removes rows only of a target it has already marked.
MarkedBeforeErased ==
    \A f \in Msg : task[f] \in {"erase", "remove"} => target[f] \in forgotten

\* What the erasing statements of a FORGET take from a table is marked, unless
\* it is the row of an amendment of the VM it forgets.
LEMMA ErasedIsMarked ==
  ASSUME TypeOK, MarkedBeforeErased, NEW f \in Msg, task[f] = "erase",
         cascade_forget(f) \/ PartialErase(f)
  PROVE  /\ forgotten \subseteq forgotten'
         /\ derived \ derived' \subseteq forgotten' \cup Orphaned'
         /\ \A m \in derived : Kind[m] = "POST" => m \in derived' \cup forgotten'
         /\ messages' \subseteq messages /\ messages \ messages' \subseteq forgotten'
<1>1. target[f] \in forgotten /\ derived \subseteq Msg
  BY DEF TypeOK, MarkedBeforeErased
<1>2. forgotten \subseteq forgotten'
  BY DEF cascade_forget, PartialErase, EraseRows
<1>3. /\ VmUpdatesOf(target[f]) \subseteq Orphaned'
      /\ \A m \in VmUpdatesOf(target[f]) : Kind[m] # "POST"
  BY <1>1, <1>2 DEF VmUpdatesOf, Orphaned, IsUpdate
<1>4. CASE cascade_forget(f)
  BY <1>1, <1>2, <1>3, <1>4 DEF cascade_forget, EraseRows
<1>5. CASE PartialErase(f)
  BY <1>1, <1>2, <1>3, <1>5 DEF PartialErase, EraseRows
<1>. QED
  BY <1>4, <1>5

-----------------------------------------------------------------------------
(***************************************************************************)
(* No message is lost.                                                     *)
(***************************************************************************)

\* What the batch will delete is recorded, applied, forgotten or blacklisted at
\* every moment between the check and the DELETE, or lost what it amends.
DropIsSafe ==
    toDelete \subseteq messages \cup derived \cup forgotten \cup Blacklisted \cup Orphaned

\* A task that reports success has its row, unless a FORGET removed it since.
ProcessedIsRecorded ==
    \A m \in Msg : task[m] = "processed" => m \in messages \cup forgotten

LossInv == NoMessageLost /\ DropIsSafe /\ ProcessedIsRecorded /\ MarkedBeforeErased

\* The invariant holds initially.
LEMMA LossInit == Init => LossInv
BY ConstantsAssumption DEF Init, LossInv, NoMessageLost, DropIsSafe, ProcessedIsRecorded, MarkedBeforeErased

\* Every step preserves it.
LEMMA LossNext == TypeOK /\ LossInv /\ [Next]_vars => LossInv'
<1> SUFFICES ASSUME TypeOK, LossInv, [Next]_vars PROVE LossInv'
  OBVIOUS
<1> USE ConstantsAssumption DEF TypeOK, Tasks, Running, Results,
       rowVars, tableVars, syncVars, batchVars, forgetVars, histVars, LossInv, NoMessageLost, DropIsSafe, ProcessedIsRecorded, MarkedBeforeErased
<1>0. Orphaned \subseteq Orphaned' /\ forgotten \subseteq forgotten'
  BY OrphansStay, MarksStay
<1> USE <1>0
<1>1. ASSUME NEW m \in Msg, insert_pending_message(m) PROVE LossInv'
  BY <1>1 DEF insert_pending_message, InsertPending
<1>2. ASSUME NEW m \in Msg, post_message(m) PROVE LossInv'
  BY <1>2 DEF post_message, InsertPending
<1>3. ASSUME NEW m \in Msg, batch_insert_messages(m) PROVE LossInv'
  BY <1>3 DEF batch_insert_messages
<1>4. ASSUME NEW m \in Msg, queue_messages_for_processing(m) PROVE LossInv'
  BY <1>4 DEF queue_messages_for_processing, InsertPending
<1>5. ASSUME NEW m \in Msg, queue_messages_fails(m) PROVE LossInv'
  BY <1>5 DEF queue_messages_fails, Fault
<1>6. ASSUME NEW m \in Msg, content_fetch(m) PROVE LossInv'
  BY <1>6 DEF content_fetch, Refresh
<1>7. ASSUME NEW m \in Msg, resolve_and_update_content(m) PROVE LossInv'
  BY <1>7 DEF resolve_and_update_content, Refresh
<1>8. ASSUME NEW m \in Msg, content_fetch_fails(m) PROVE LossInv'
  BY <1>8 DEF content_fetch_fails, Fault
<1>9. ASSUME NEW m \in Msg, batch_insert_unfiltered(m) PROVE LossInv'
  BY <1>9 DEF batch_insert_unfiltered, Fault
<1>10. ASSUME NEW m \in Msg, get_unfetched_messages(m) PROVE LossInv'
  BY <1>10 DEF get_unfetched_messages
<1>11. ASSUME NEW m \in Msg, resolve_fails(m) PROVE LossInv'
  BY <1>11 DEF resolve_fails, Fault
<1>12. ASSUME NEW m \in Msg, elapse(m) PROVE LossInv'
  BY <1>12 DEF elapse
<1>13. ASSUME NEW m \in Msg, parse_fails(m) PROVE LossInv'
  BY <1>13 DEF parse_fails, Goto, MayStart
<1>14. ASSUME NEW m \in Msg, process_single_message(m) PROVE LossInv'
  BY <1>14 DEF process_single_message, Goto, MayStart
<1>15. ASSUME NEW m \in Msg, reject_message(m) PROVE LossInv'
  BY <1>15 DEF reject_message, Goto, MayStart
<1>16. ASSUME NEW m \in Msg, handler_process(m) PROVE LossInv'
  BY <1>16 DEF handler_process, Goto
<1>17. ASSUME NEW m \in Msg, store_processed_message(m) PROVE LossInv'
  BY <1>17 DEF store_processed_message, Goto
<1>18. ASSUME NEW m \in Msg, cascade_forget(m) PROVE LossInv'
  <2>1. task[m] = "erase"
    BY <1>18 DEF cascade_forget
  <2>. QED
    BY <1>18, <2>1, ErasedIsMarked DEF cascade_forget, Goto
<1>19. ASSUME NEW m \in Msg, delete_message(m) PROVE LossInv'
  BY <1>19 DEF delete_message, Goto
<1>20. ASSUME NEW m \in Msg, defer_pending(m) PROVE LossInv'
  BY <1>20 DEF defer_pending, Goto, MayStart, Fault
<1>21. ASSUME NEW m \in Msg, handler_db_error(m) PROVE LossInv'
  <2>1. /\ derived \ derived' \subseteq forgotten' \cup Orphaned'
        /\ messages \ messages' \subseteq forgotten'
    BY <1>21, ErasedIsMarked DEF handler_db_error, PartialWrites
  <2>. QED
    BY <1>21, <2>1 DEF handler_db_error, Goto, Fault
<1>22. ASSUME NEW m \in Msg, task_error(m) PROVE LossInv'
  <2>1. /\ derived \ derived' \subseteq forgotten' \cup Orphaned'
        /\ messages \ messages' \subseteq forgotten'
    BY <1>22, ErasedIsMarked DEF task_error, PartialWrites
  <2>. QED
    BY <1>22, <2>1 DEF task_error, Goto, Fault
<1>23. ASSUME NEW m \in Msg, result_not_written(m) PROVE LossInv'
  BY <1>23 DEF result_not_written, Goto, Fault
<1>24. ASSUME NEW m \in Msg, collect_processed(m) PROVE LossInv'
  BY <1>24 DEF collect_processed, Goto
<1>25. ASSUME NEW m \in Msg, collect_deferred(m) PROVE LossInv'
  BY <1>25 DEF collect_deferred, Goto
<1>26. ASSUME NEW m \in Msg, move_to_rejected(m) PROVE LossInv'
  BY <1>26 DEF move_to_rejected, Goto, DeletePending
<1>27. ASSUME NEW m \in Msg, update_retry(m) PROVE LossInv'
  BY <1>27 DEF update_retry, Goto
<1>28. ASSUME NEW m \in Msg, NEW h \in Msg, mark_forgotten(m, h) PROVE LossInv'
  BY <1>28 DEF mark_forgotten, Goto
<1>29. CASE process_batch
  BY <1>29 DEF process_batch, DueRows, batch_check_duplicates, batch_check_forgotten
<1>30. CASE batch_delete_pending
  BY <1>30 DEF batch_delete_pending, AllCollected, EndBatch, DeletePending
<1>31. CASE batch_delete_fails
  BY <1>31 DEF batch_delete_fails, AllCollected, EndBatch, Fault
<1>32. CASE crash
  BY <1>32 DEF crash, EndBatch, Fault
<1>33. CASE UNCHANGED vars
  BY <1>33 DEF vars
<1>. QED
  BY <1>1, <1>2, <1>3, <1>4, <1>5, <1>6, <1>7, <1>8, <1>9, <1>10, <1>11, <1>12, <1>13, <1>14,
     <1>15, <1>16, <1>17, <1>18, <1>19, <1>20, <1>21, <1>22, <1>23, <1>24, <1>25, <1>26, <1>27,
     <1>28, <1>29, <1>30, <1>31, <1>32, <1>33
     DEF Next, Ingress, Services, TaskStep, TaskFault, Collect

\* No message is lost, whatever crashes, timeouts, failed statements and
\* concurrent FORGET handlers happen between a check and the delete.
THEOREM NothingLost == Spec => []NoMessageLost
<1>1. Init => LossInv
  BY LossInit
<1>2. TypeOK /\ LossInv /\ [Next]_vars => LossInv'
  BY LossNext
<1>3. LossInv => NoMessageLost
  BY DEF LossInv
<1>. QED
  BY <1>1, <1>2, <1>3, TypeCorrect, PTL DEF Spec

-----------------------------------------------------------------------------
(***************************************************************************)
(* The retry counter.                                                      *)
(***************************************************************************)


\* The invariant holds initially.
LEMMA RetriesInit == Init => RetriesBelowMax
BY ConstantsAssumption DEF Init, RetriesBelowMax

\* Every step preserves it.
LEMMA RetriesNext == TypeOK /\ RetriesBelowMax /\ [Next]_vars => RetriesBelowMax'
<1> SUFFICES ASSUME TypeOK, RetriesBelowMax, [Next]_vars PROVE RetriesBelowMax'
  OBVIOUS
<1> USE ConstantsAssumption DEF TypeOK, Tasks, Running, Results,
       rowVars, tableVars, syncVars, batchVars, forgetVars, histVars, RetriesBelowMax
<1>1. ASSUME NEW m \in Msg, insert_pending_message(m) PROVE RetriesBelowMax'
  BY <1>1 DEF insert_pending_message, InsertPending
<1>2. ASSUME NEW m \in Msg, post_message(m) PROVE RetriesBelowMax'
  BY <1>2 DEF post_message, InsertPending
<1>3. ASSUME NEW m \in Msg, batch_insert_messages(m) PROVE RetriesBelowMax'
  BY <1>3 DEF batch_insert_messages
<1>4. ASSUME NEW m \in Msg, queue_messages_for_processing(m) PROVE RetriesBelowMax'
  BY <1>4 DEF queue_messages_for_processing, InsertPending
<1>5. ASSUME NEW m \in Msg, queue_messages_fails(m) PROVE RetriesBelowMax'
  BY <1>5 DEF queue_messages_fails, Fault
<1>6. ASSUME NEW m \in Msg, content_fetch(m) PROVE RetriesBelowMax'
  BY <1>6 DEF content_fetch, Refresh
<1>7. ASSUME NEW m \in Msg, resolve_and_update_content(m) PROVE RetriesBelowMax'
  BY <1>7 DEF resolve_and_update_content, Refresh
<1>8. ASSUME NEW m \in Msg, content_fetch_fails(m) PROVE RetriesBelowMax'
  BY <1>8 DEF content_fetch_fails, Fault
<1>9. ASSUME NEW m \in Msg, batch_insert_unfiltered(m) PROVE RetriesBelowMax'
  BY <1>9 DEF batch_insert_unfiltered, Fault
<1>10. ASSUME NEW m \in Msg, get_unfetched_messages(m) PROVE RetriesBelowMax'
  BY <1>10 DEF get_unfetched_messages
<1>11. ASSUME NEW m \in Msg, resolve_fails(m) PROVE RetriesBelowMax'
  BY <1>11 DEF resolve_fails, Fault
<1>12. ASSUME NEW m \in Msg, elapse(m) PROVE RetriesBelowMax'
  BY <1>12 DEF elapse
<1>13. ASSUME NEW m \in Msg, parse_fails(m) PROVE RetriesBelowMax'
  BY <1>13 DEF parse_fails, Goto, MayStart
<1>14. ASSUME NEW m \in Msg, process_single_message(m) PROVE RetriesBelowMax'
  BY <1>14 DEF process_single_message, Goto, MayStart
<1>15. ASSUME NEW m \in Msg, reject_message(m) PROVE RetriesBelowMax'
  BY <1>15 DEF reject_message, Goto, MayStart
<1>16. ASSUME NEW m \in Msg, handler_process(m) PROVE RetriesBelowMax'
  BY <1>16 DEF handler_process, Goto
<1>17. ASSUME NEW m \in Msg, store_processed_message(m) PROVE RetriesBelowMax'
  BY <1>17 DEF store_processed_message, Goto
<1>18. ASSUME NEW m \in Msg, cascade_forget(m) PROVE RetriesBelowMax'
  BY <1>18 DEF cascade_forget, Goto, EraseRows, AmendsOf, VmUpdatesOf
<1>19. ASSUME NEW m \in Msg, delete_message(m) PROVE RetriesBelowMax'
  BY <1>19 DEF delete_message, Goto
<1>20. ASSUME NEW m \in Msg, defer_pending(m) PROVE RetriesBelowMax'
  BY <1>20 DEF defer_pending, Goto, MayStart, Fault
<1>21. ASSUME NEW m \in Msg, handler_db_error(m) PROVE RetriesBelowMax'
  BY <1>21 DEF handler_db_error, Goto, Fault, PartialWrites, PartialErase, EraseRows, AmendsOf, VmUpdatesOf
<1>22. ASSUME NEW m \in Msg, task_error(m) PROVE RetriesBelowMax'
  BY <1>22 DEF task_error, Goto, Fault, PartialWrites, PartialErase, EraseRows, AmendsOf, VmUpdatesOf
<1>23. ASSUME NEW m \in Msg, result_not_written(m) PROVE RetriesBelowMax'
  BY <1>23 DEF result_not_written, Goto, Fault
<1>24. ASSUME NEW m \in Msg, collect_processed(m) PROVE RetriesBelowMax'
  BY <1>24 DEF collect_processed, Goto
<1>25. ASSUME NEW m \in Msg, collect_deferred(m) PROVE RetriesBelowMax'
  BY <1>25 DEF collect_deferred, Goto
<1>26. ASSUME NEW m \in Msg, move_to_rejected(m) PROVE RetriesBelowMax'
  BY <1>26 DEF move_to_rejected, Goto, DeletePending
<1>27. ASSUME NEW m \in Msg, update_retry(m) PROVE RetriesBelowMax'
  BY <1>27 DEF update_retry, Goto, LastAttempt
<1>28. ASSUME NEW m \in Msg, NEW h \in Msg, mark_forgotten(m, h) PROVE RetriesBelowMax'
  BY <1>28 DEF mark_forgotten, Goto
<1>29. CASE process_batch
  BY <1>29 DEF process_batch, DueRows, batch_check_duplicates, batch_check_forgotten
<1>30. CASE batch_delete_pending
  BY <1>30 DEF batch_delete_pending, EndBatch, DeletePending
<1>31. CASE batch_delete_fails
  BY <1>31 DEF batch_delete_fails, EndBatch, Fault
<1>32. CASE crash
  BY <1>32 DEF crash, EndBatch, Fault
<1>33. CASE UNCHANGED vars
  BY <1>33 DEF vars
<1>. QED
  BY <1>1, <1>2, <1>3, <1>4, <1>5, <1>6, <1>7, <1>8, <1>9, <1>10, <1>11, <1>12, <1>13, <1>14,
     <1>15, <1>16, <1>17, <1>18, <1>19, <1>20, <1>21, <1>22, <1>23, <1>24, <1>25, <1>26, <1>27,
     <1>28, <1>29, <1>30, <1>31, <1>32, <1>33
     DEF Next, Ingress, Services, TaskStep, TaskFault, Collect

\* No pending row reaches MAX_RETRIES, so the SELECT of process_batch never
\* leaves one behind.
THEOREM RetriesBounded == Spec => []RetriesBelowMax
<1>1. Init => RetriesBelowMax
  BY RetriesInit
<1>2. TypeOK /\ RetriesBelowMax /\ [Next]_vars => RetriesBelowMax'
  BY RetriesNext
<1>. QED
  BY <1>1, <1>2, TypeCorrect, PTL DEF Spec

-----------------------------------------------------------------------------
(***************************************************************************)
(* Only an authorized FORGET forgets.                                      *)
(***************************************************************************)

\* A FORGET past its validation is signed, and what it has left to do and does
\* is what it names, by its own sender.
ForgetTasksAuthorized ==
    \A f \in Msg :
        /\ task[f] \in {"mark", "erase", "remove"} =>
              /\ Kind[f] = "FORGET"
              /\ f \notin BadSig
              /\ \A h \in left[f] : h \in Hashes[f] /\ Sender[h] = Sender[f]
        /\ task[f] \in {"erase", "remove"} =>
              target[f] \in Hashes[f] /\ Sender[target[f]] = Sender[f]

\* What is queued, recorded or being processed was received.
OnlyReceived ==
    /\ pending \cup messages \cup chainQ \subseteq received
    /\ \A m \in Msg : task[m] # "none" => m \in received

\* The invariant holds initially.
LEMMA ReceivedInit == Init => OnlyReceived
BY DEF Init, OnlyReceived

\* Every step preserves it.
LEMMA ReceivedNext == TypeOK /\ OnlyReceived /\ [Next]_vars => OnlyReceived'
<1> SUFFICES ASSUME TypeOK, OnlyReceived, [Next]_vars PROVE OnlyReceived'
  OBVIOUS
<1> USE DEF TypeOK, OnlyReceived, rowVars, tableVars, syncVars, batchVars, forgetVars, histVars
<1>1. ASSUME NEW m \in Msg, Ingress(m) PROVE OnlyReceived'
  BY <1>1 DEF Ingress, insert_pending_message, post_message, batch_insert_messages,
       batch_insert_unfiltered, InsertPending
<1>2. ASSUME NEW m \in Msg, queue_messages_for_processing(m) \/ queue_messages_fails(m)
      PROVE OnlyReceived'
  BY <1>2 DEF queue_messages_for_processing, queue_messages_fails, InsertPending
<1>3. ASSUME NEW m \in Msg, get_unfetched_messages(m) \/ resolve_fails(m) \/ elapse(m)
      PROVE OnlyReceived'
  BY <1>3 DEF get_unfetched_messages, resolve_fails, elapse
<1>4. ASSUME NEW m \in Msg, content_fetch(m) \/ content_fetch_fails(m) PROVE OnlyReceived'
  BY <1>4 DEF content_fetch, content_fetch_fails
<1>5. ASSUME NEW m \in Msg, resolve_and_update_content(m) PROVE OnlyReceived'
  BY <1>5 DEF resolve_and_update_content
<1>6. ASSUME NEW m \in Msg,
             parse_fails(m) \/ process_single_message(m) \/ reject_message(m) \/ defer_pending(m)
      PROVE OnlyReceived'
  <2>1. task[m] = "queued"
    BY <1>6 DEF parse_fails, process_single_message, reject_message, defer_pending, MayStart
  <2>. QED
    BY <1>6, <2>1 DEF parse_fails, process_single_message, reject_message, defer_pending, Goto
<1>7. ASSUME NEW m \in Msg, handler_process(m) \/ store_processed_message(m) PROVE OnlyReceived'
  BY <1>7 DEF handler_process, store_processed_message, Goto
<1>8. ASSUME NEW m \in Msg, NEW h \in Msg, mark_forgotten(m, h) PROVE OnlyReceived'
  BY <1>8 DEF mark_forgotten, Goto
<1>9. ASSUME NEW m \in Msg, cascade_forget(m) \/ delete_message(m) PROVE OnlyReceived'
  BY <1>9 DEF cascade_forget, delete_message, EraseRows, Goto
<1>10. ASSUME NEW m \in Msg, handler_db_error(m) \/ task_error(m) PROVE OnlyReceived'
  <2>1. task[m] # "none"
    BY <1>10 DEF handler_db_error, task_error, Running, MayStart
  <2>2. messages' \subseteq messages
    BY <1>10 DEF handler_db_error, task_error, PartialWrites, PartialErase, EraseRows
  <2>. QED
    BY <1>10, <2>1, <2>2 DEF handler_db_error, task_error, Goto
<1>11. ASSUME NEW m \in Msg, Collect(m) \/ result_not_written(m) PROVE OnlyReceived'
  BY <1>11 DEF Collect, result_not_written, collect_processed, collect_deferred,
       move_to_rejected, update_retry, DeletePending, Goto
<1>12. CASE process_batch
  BY <1>12 DEF process_batch, DueRows
<1>13. CASE batch_delete_pending \/ batch_delete_fails \/ crash
  BY <1>13 DEF batch_delete_pending, batch_delete_fails, crash, DeletePending, EndBatch
<1>14. CASE UNCHANGED vars
  BY <1>14 DEF vars
<1>. QED
  BY <1>1, <1>2, <1>3, <1>4, <1>5, <1>6, <1>7, <1>8, <1>9, <1>10, <1>11, <1>12, <1>13, <1>14
     DEF Next, Services, TaskStep, TaskFault

AuthorityInv == ForgetIsAuthorized /\ ForgetTasksAuthorized

\* The invariant holds initially.
LEMMA AuthorityInit == Init => AuthorityInv
BY ConstantsAssumption DEF Init, AuthorityInv, ForgetIsAuthorized, ForgetTasksAuthorized, Authorizes

\* Every step preserves it.
LEMMA AuthorityNext == TypeOK /\ OnlyReceived /\ AuthorityInv /\ [Next]_vars => AuthorityInv'
<1> SUFFICES ASSUME TypeOK, OnlyReceived, AuthorityInv, [Next]_vars PROVE AuthorityInv'
  OBVIOUS
<1> USE ConstantsAssumption DEF TypeOK, Tasks, Running, Results,
       rowVars, tableVars, syncVars, batchVars, forgetVars, histVars, AuthorityInv, ForgetIsAuthorized, ForgetTasksAuthorized, Authorizes
<1>1. ASSUME NEW m \in Msg, insert_pending_message(m) PROVE AuthorityInv'
  BY <1>1 DEF insert_pending_message, InsertPending
<1>2. ASSUME NEW m \in Msg, post_message(m) PROVE AuthorityInv'
  BY <1>2 DEF post_message, InsertPending
<1>3. ASSUME NEW m \in Msg, batch_insert_messages(m) PROVE AuthorityInv'
  BY <1>3 DEF batch_insert_messages
<1>4. ASSUME NEW m \in Msg, queue_messages_for_processing(m) PROVE AuthorityInv'
  BY <1>4 DEF queue_messages_for_processing, InsertPending
<1>5. ASSUME NEW m \in Msg, queue_messages_fails(m) PROVE AuthorityInv'
  BY <1>5 DEF queue_messages_fails, Fault
<1>6. ASSUME NEW m \in Msg, content_fetch(m) PROVE AuthorityInv'
  BY <1>6 DEF content_fetch, Refresh
<1>7. ASSUME NEW m \in Msg, resolve_and_update_content(m) PROVE AuthorityInv'
  BY <1>7 DEF resolve_and_update_content, Refresh
<1>8. ASSUME NEW m \in Msg, content_fetch_fails(m) PROVE AuthorityInv'
  BY <1>8 DEF content_fetch_fails, Fault
<1>9. ASSUME NEW m \in Msg, batch_insert_unfiltered(m) PROVE AuthorityInv'
  BY <1>9 DEF batch_insert_unfiltered, Fault
<1>10. ASSUME NEW m \in Msg, get_unfetched_messages(m) PROVE AuthorityInv'
  BY <1>10 DEF get_unfetched_messages
<1>11. ASSUME NEW m \in Msg, resolve_fails(m) PROVE AuthorityInv'
  BY <1>11 DEF resolve_fails, Fault
<1>12. ASSUME NEW m \in Msg, elapse(m) PROVE AuthorityInv'
  BY <1>12 DEF elapse
<1>13. ASSUME NEW m \in Msg, parse_fails(m) PROVE AuthorityInv'
  BY <1>13 DEF parse_fails, Goto, MayStart
<1>14. ASSUME NEW m \in Msg, process_single_message(m) PROVE AuthorityInv'
  BY <1>14 DEF process_single_message, Goto, MayStart, validate, forget_validate, check_ownership
<1>15. ASSUME NEW m \in Msg, reject_message(m) PROVE AuthorityInv'
  BY <1>15 DEF reject_message, Goto, MayStart
<1>16. ASSUME NEW m \in Msg, handler_process(m) PROVE AuthorityInv'
  BY <1>16 DEF handler_process, Goto
<1>17. ASSUME NEW m \in Msg, store_processed_message(m) PROVE AuthorityInv'
  BY <1>17 DEF store_processed_message, Goto
<1>18. ASSUME NEW m \in Msg, cascade_forget(m) PROVE AuthorityInv'
  <2>1. \A a \in AmendsOf(target[m]) : Kind[target[m]] = "POST" /\ Original[a] = target[m]
    BY DEF AmendsOf
  <2>2. forgotten' \subseteq forgotten \cup AmendsOf(target[m]) /\ task[m] = "erase"
    BY <1>18 DEF cascade_forget, EraseRows
  <2>3. Authorizes(m, target[m]) /\ \A a \in AmendsOf(target[m]) : Authorizes(m, a)
    BY <2>1, <2>2 DEF AuthorityInv, ForgetTasksAuthorized, Authorizes
  <2>4. ForgetIsAuthorized'
    BY <1>18, <2>2, <2>3 DEF cascade_forget, OnlyReceived
  <2>5. ForgetTasksAuthorized'
    BY <1>18 DEF cascade_forget, Goto
  <2>. QED
    BY <2>4, <2>5
<1>19. ASSUME NEW m \in Msg, delete_message(m) PROVE AuthorityInv'
  BY <1>19 DEF delete_message, Goto
<1>20. ASSUME NEW m \in Msg, defer_pending(m) PROVE AuthorityInv'
  BY <1>20 DEF defer_pending, Goto, MayStart, Fault
<1>21. ASSUME NEW m \in Msg, handler_db_error(m) PROVE AuthorityInv'
  BY <1>21 DEF handler_db_error, Goto, Fault, PartialWrites, PartialErase, EraseRows, AmendsOf, OnlyReceived
<1>22. ASSUME NEW m \in Msg, task_error(m) PROVE AuthorityInv'
  BY <1>22 DEF task_error, Goto, Fault, PartialWrites, PartialErase, EraseRows, AmendsOf, OnlyReceived
<1>23. ASSUME NEW m \in Msg, result_not_written(m) PROVE AuthorityInv'
  BY <1>23 DEF result_not_written, Goto, Fault
<1>24. ASSUME NEW m \in Msg, collect_processed(m) PROVE AuthorityInv'
  BY <1>24 DEF collect_processed, Goto
<1>25. ASSUME NEW m \in Msg, collect_deferred(m) PROVE AuthorityInv'
  BY <1>25 DEF collect_deferred, Goto
<1>26. ASSUME NEW m \in Msg, move_to_rejected(m) PROVE AuthorityInv'
  BY <1>26 DEF move_to_rejected, Goto, DeletePending
<1>27. ASSUME NEW m \in Msg, update_retry(m) PROVE AuthorityInv'
  BY <1>27 DEF update_retry, Goto
<1>28. ASSUME NEW m \in Msg, NEW h \in Msg, mark_forgotten(m, h) PROVE AuthorityInv'
  BY <1>28 DEF mark_forgotten, Goto, OnlyReceived
<1>29. CASE process_batch
  BY <1>29 DEF process_batch, DueRows, batch_check_duplicates, batch_check_forgotten
<1>30. CASE batch_delete_pending
  BY <1>30 DEF batch_delete_pending, AllCollected, EndBatch, DeletePending
<1>31. CASE batch_delete_fails
  BY <1>31 DEF batch_delete_fails, AllCollected, EndBatch, Fault
<1>32. CASE crash
  BY <1>32 DEF crash, EndBatch, Fault
<1>33. CASE UNCHANGED vars
  BY <1>33 DEF vars
<1>. QED
  BY <1>1, <1>2, <1>3, <1>4, <1>5, <1>6, <1>7, <1>8, <1>9, <1>10, <1>11, <1>12, <1>13, <1>14,
     <1>15, <1>16, <1>17, <1>18, <1>19, <1>20, <1>21, <1>22, <1>23, <1>24, <1>25, <1>26, <1>27,
     <1>28, <1>29, <1>30, <1>31, <1>32, <1>33
     DEF Next, Ingress, Services, TaskStep, TaskFault, Collect

\* Whatever is forgotten was named by a signed FORGET of the same sender, or
\* amends such a post, whatever source the FORGET came from.
THEOREM OnlyAuthorizedForgets == Spec => []ForgetIsAuthorized
<1>1. Init => AuthorityInv
  BY AuthorityInit
<1>2. TypeOK /\ OnlyReceived /\ AuthorityInv /\ [Next]_vars => AuthorityInv'
  BY AuthorityNext
<1>3. AuthorityInv => ForgetIsAuthorized
  BY DEF AuthorityInv
<1>4. Init => OnlyReceived
  BY ReceivedInit
<1>5. TypeOK /\ OnlyReceived /\ [Next]_vars => OnlyReceived'
  BY ReceivedNext
<1>. QED
  BY <1>1, <1>2, <1>3, <1>4, <1>5, TypeCorrect, PTL DEF Spec

-----------------------------------------------------------------------------
(***************************************************************************)
(* Trust comes from chain sync only.                                       *)
(***************************************************************************)

\* Everything that lets a message skip the signature check was put there by
\* chain sync; and a task past the check is verified or anchored.
TrustIsAnchored ==
    /\ trusted \cup snapTrusted \cup chainQ \cup unfetched \cup fetching \subseteq anchored
    /\ \A m \in BadSig : task[m] \in Running => m \in anchored

TrustInv == UnsignedOnlyFromChain /\ TrustIsAnchored

\* The invariant holds initially.
LEMMA TrustInit == Init => TrustInv
BY ConstantsAssumption DEF Init, TrustInv, UnsignedOnlyFromChain, TrustIsAnchored, Running

\* Every step preserves it.
LEMMA TrustNext == TypeOK /\ TrustInv /\ [Next]_vars => TrustInv'
<1> SUFFICES ASSUME TypeOK, TrustInv, [Next]_vars PROVE TrustInv'
  OBVIOUS
<1> USE ConstantsAssumption DEF TypeOK, Tasks, Running, Results,
       rowVars, tableVars, syncVars, batchVars, forgetVars, histVars, TrustInv, UnsignedOnlyFromChain, TrustIsAnchored
<1>1. ASSUME NEW m \in Msg, insert_pending_message(m) PROVE TrustInv'
  BY <1>1 DEF insert_pending_message, InsertPending
<1>2. ASSUME NEW m \in Msg, post_message(m) PROVE TrustInv'
  BY <1>2 DEF post_message, InsertPending
<1>3. ASSUME NEW m \in Msg, batch_insert_messages(m) PROVE TrustInv'
  BY <1>3 DEF batch_insert_messages
<1>4. ASSUME NEW m \in Msg, queue_messages_for_processing(m) PROVE TrustInv'
  BY <1>4 DEF queue_messages_for_processing, InsertPending
<1>5. ASSUME NEW m \in Msg, queue_messages_fails(m) PROVE TrustInv'
  BY <1>5 DEF queue_messages_fails, Fault
<1>6. ASSUME NEW m \in Msg, content_fetch(m) PROVE TrustInv'
  BY <1>6 DEF content_fetch, Refresh
<1>7. ASSUME NEW m \in Msg, resolve_and_update_content(m) PROVE TrustInv'
  BY <1>7 DEF resolve_and_update_content, Refresh
<1>8. ASSUME NEW m \in Msg, content_fetch_fails(m) PROVE TrustInv'
  BY <1>8 DEF content_fetch_fails, Fault
<1>9. ASSUME NEW m \in Msg, batch_insert_unfiltered(m) PROVE TrustInv'
  BY <1>9 DEF batch_insert_unfiltered, Fault
<1>10. ASSUME NEW m \in Msg, get_unfetched_messages(m) PROVE TrustInv'
  BY <1>10 DEF get_unfetched_messages
<1>11. ASSUME NEW m \in Msg, resolve_fails(m) PROVE TrustInv'
  BY <1>11 DEF resolve_fails, Fault
<1>12. ASSUME NEW m \in Msg, elapse(m) PROVE TrustInv'
  BY <1>12 DEF elapse
<1>13. ASSUME NEW m \in Msg, parse_fails(m) PROVE TrustInv'
  BY <1>13 DEF parse_fails, Goto, MayStart
<1>14. ASSUME NEW m \in Msg, process_single_message(m) PROVE TrustInv'
  BY <1>14 DEF process_single_message, Goto, MayStart, Verified
<1>15. ASSUME NEW m \in Msg, reject_message(m) PROVE TrustInv'
  BY <1>15 DEF reject_message, Goto, MayStart
<1>16. ASSUME NEW m \in Msg, handler_process(m) PROVE TrustInv'
  BY <1>16 DEF handler_process, Goto
<1>17. ASSUME NEW m \in Msg, store_processed_message(m) PROVE TrustInv'
  BY <1>17 DEF store_processed_message, Goto
<1>18. ASSUME NEW m \in Msg, cascade_forget(m) PROVE TrustInv'
  BY <1>18 DEF cascade_forget, Goto, EraseRows, AmendsOf, VmUpdatesOf
<1>19. ASSUME NEW m \in Msg, delete_message(m) PROVE TrustInv'
  BY <1>19 DEF delete_message, Goto
<1>20. ASSUME NEW m \in Msg, defer_pending(m) PROVE TrustInv'
  BY <1>20 DEF defer_pending, Goto, MayStart, Fault
<1>21. ASSUME NEW m \in Msg, handler_db_error(m) PROVE TrustInv'
  BY <1>21 DEF handler_db_error, Goto, Fault, PartialWrites, PartialErase, EraseRows, AmendsOf, VmUpdatesOf
<1>22. ASSUME NEW m \in Msg, task_error(m) PROVE TrustInv'
  BY <1>22 DEF task_error, Goto, Fault, PartialWrites, PartialErase, EraseRows, AmendsOf, VmUpdatesOf
<1>23. ASSUME NEW m \in Msg, result_not_written(m) PROVE TrustInv'
  BY <1>23 DEF result_not_written, Goto, Fault
<1>24. ASSUME NEW m \in Msg, collect_processed(m) PROVE TrustInv'
  BY <1>24 DEF collect_processed, Goto
<1>25. ASSUME NEW m \in Msg, collect_deferred(m) PROVE TrustInv'
  BY <1>25 DEF collect_deferred, Goto
<1>26. ASSUME NEW m \in Msg, move_to_rejected(m) PROVE TrustInv'
  BY <1>26 DEF move_to_rejected, Goto, DeletePending
<1>27. ASSUME NEW m \in Msg, update_retry(m) PROVE TrustInv'
  BY <1>27 DEF update_retry, Goto
<1>28. ASSUME NEW m \in Msg, NEW h \in Msg, mark_forgotten(m, h) PROVE TrustInv'
  BY <1>28 DEF mark_forgotten, Goto
<1>29. CASE process_batch
  BY <1>29 DEF process_batch, DueRows, batch_check_duplicates, batch_check_forgotten
<1>30. CASE batch_delete_pending
  BY <1>30 DEF batch_delete_pending, EndBatch, DeletePending
<1>31. CASE batch_delete_fails
  BY <1>31 DEF batch_delete_fails, EndBatch, Fault
<1>32. CASE crash
  BY <1>32 DEF crash, EndBatch, Fault
<1>33. CASE UNCHANGED vars
  BY <1>33 DEF vars
<1>. QED
  BY <1>1, <1>2, <1>3, <1>4, <1>5, <1>6, <1>7, <1>8, <1>9, <1>10, <1>11, <1>12, <1>13, <1>14,
     <1>15, <1>16, <1>17, <1>18, <1>19, <1>20, <1>21, <1>22, <1>23, <1>24, <1>25, <1>26, <1>27,
     <1>28, <1>29, <1>30, <1>31, <1>32, <1>33
     DEF Next, Ingress, Services, TaskStep, TaskFault, Collect

\* A message with a bad signature has an effect only if chain sync inserted it.
THEOREM UnsignedIsAnchored == Spec => []UnsignedOnlyFromChain
<1>1. Init => TrustInv
  BY TrustInit
<1>2. TypeOK /\ TrustInv /\ [Next]_vars => TrustInv'
  BY TrustNext
<1>3. TrustInv => UnsignedOnlyFromChain
  BY DEF TrustInv
<1>. QED
  BY <1>1, <1>2, <1>3, TypeCorrect, PTL DEF Spec

-----------------------------------------------------------------------------
(***************************************************************************)
(* Recorded messages were applied.                                         *)
(***************************************************************************)

\* Only a FORGET runs the forget steps; a task of any other type stores its
\* message after its handler wrote, unless that was forgotten since.
StoredAfterApplied ==
    \A m \in Msg :
        /\ task[m] \in {"mark", "erase", "remove"} => Kind[m] = "FORGET"
        /\ task[m] = "store" /\ Kind[m] # "FORGET" =>
              m \in derived \cup forgotten \cup Orphaned

AppliedInv == RecordedIsApplied /\ StoredAfterApplied /\ MarkedBeforeErased

\* The invariant holds initially.
LEMMA AppliedInit == Init => AppliedInv
BY ConstantsAssumption DEF Init, AppliedInv, RecordedIsApplied, StoredAfterApplied, MarkedBeforeErased

\* Every step preserves it.
LEMMA AppliedNext == TypeOK /\ AppliedInv /\ [Next]_vars => AppliedInv'
<1> SUFFICES ASSUME TypeOK, AppliedInv, [Next]_vars PROVE AppliedInv'
  OBVIOUS
<1> USE ConstantsAssumption DEF TypeOK, Tasks, Running, Results,
       rowVars, tableVars, syncVars, batchVars, forgetVars, histVars, AppliedInv, RecordedIsApplied, StoredAfterApplied, MarkedBeforeErased
<1>0. Orphaned \subseteq Orphaned' /\ forgotten \subseteq forgotten'
  BY OrphansStay, MarksStay
<1> USE <1>0
<1>1. ASSUME NEW m \in Msg, insert_pending_message(m) PROVE AppliedInv'
  BY <1>1 DEF insert_pending_message, InsertPending
<1>2. ASSUME NEW m \in Msg, post_message(m) PROVE AppliedInv'
  BY <1>2 DEF post_message, InsertPending
<1>3. ASSUME NEW m \in Msg, batch_insert_messages(m) PROVE AppliedInv'
  BY <1>3 DEF batch_insert_messages
<1>4. ASSUME NEW m \in Msg, queue_messages_for_processing(m) PROVE AppliedInv'
  BY <1>4 DEF queue_messages_for_processing, InsertPending
<1>5. ASSUME NEW m \in Msg, queue_messages_fails(m) PROVE AppliedInv'
  BY <1>5 DEF queue_messages_fails, Fault
<1>6. ASSUME NEW m \in Msg, content_fetch(m) PROVE AppliedInv'
  BY <1>6 DEF content_fetch, Refresh
<1>7. ASSUME NEW m \in Msg, resolve_and_update_content(m) PROVE AppliedInv'
  BY <1>7 DEF resolve_and_update_content, Refresh
<1>8. ASSUME NEW m \in Msg, content_fetch_fails(m) PROVE AppliedInv'
  BY <1>8 DEF content_fetch_fails, Fault
<1>9. ASSUME NEW m \in Msg, batch_insert_unfiltered(m) PROVE AppliedInv'
  BY <1>9 DEF batch_insert_unfiltered, Fault
<1>10. ASSUME NEW m \in Msg, get_unfetched_messages(m) PROVE AppliedInv'
  BY <1>10 DEF get_unfetched_messages
<1>11. ASSUME NEW m \in Msg, resolve_fails(m) PROVE AppliedInv'
  BY <1>11 DEF resolve_fails, Fault
<1>12. ASSUME NEW m \in Msg, elapse(m) PROVE AppliedInv'
  BY <1>12 DEF elapse
<1>13. ASSUME NEW m \in Msg, parse_fails(m) PROVE AppliedInv'
  BY <1>13 DEF parse_fails, Goto, MayStart
<1>14. ASSUME NEW m \in Msg, process_single_message(m) PROVE AppliedInv'
  BY <1>14 DEF process_single_message, Goto, MayStart
<1>15. ASSUME NEW m \in Msg, reject_message(m) PROVE AppliedInv'
  BY <1>15 DEF reject_message, Goto, MayStart
<1>16. ASSUME NEW m \in Msg, handler_process(m) PROVE AppliedInv'
  BY <1>16 DEF handler_process, Goto
<1>17. ASSUME NEW m \in Msg, store_processed_message(m) PROVE AppliedInv'
  BY <1>17 DEF store_processed_message, Goto
<1>18. ASSUME NEW m \in Msg, cascade_forget(m) PROVE AppliedInv'
  <2>1. task[m] = "erase"
    BY <1>18 DEF cascade_forget
  <2>. QED
    BY <1>18, <2>1, ErasedIsMarked DEF cascade_forget, Goto
<1>19. ASSUME NEW m \in Msg, delete_message(m) PROVE AppliedInv'
  BY <1>19 DEF delete_message, Goto
<1>20. ASSUME NEW m \in Msg, defer_pending(m) PROVE AppliedInv'
  BY <1>20 DEF defer_pending, Goto, MayStart, Fault
<1>21. ASSUME NEW m \in Msg, handler_db_error(m) PROVE AppliedInv'
  <2>1. /\ derived \ derived' \subseteq forgotten' \cup Orphaned'
        /\ messages' \subseteq messages
    BY <1>21, ErasedIsMarked DEF handler_db_error, PartialWrites
  <2>. QED
    BY <1>21, <2>1 DEF handler_db_error, Goto, Fault
<1>22. ASSUME NEW m \in Msg, task_error(m) PROVE AppliedInv'
  <2>1. /\ derived \ derived' \subseteq forgotten' \cup Orphaned'
        /\ messages' \subseteq messages
    BY <1>22, ErasedIsMarked DEF task_error, PartialWrites
  <2>. QED
    BY <1>22, <2>1 DEF task_error, Goto, Fault
<1>23. ASSUME NEW m \in Msg, result_not_written(m) PROVE AppliedInv'
  BY <1>23 DEF result_not_written, Goto, Fault
<1>24. ASSUME NEW m \in Msg, collect_processed(m) PROVE AppliedInv'
  BY <1>24 DEF collect_processed, Goto
<1>25. ASSUME NEW m \in Msg, collect_deferred(m) PROVE AppliedInv'
  BY <1>25 DEF collect_deferred, Goto
<1>26. ASSUME NEW m \in Msg, move_to_rejected(m) PROVE AppliedInv'
  BY <1>26 DEF move_to_rejected, Goto, DeletePending
<1>27. ASSUME NEW m \in Msg, update_retry(m) PROVE AppliedInv'
  BY <1>27 DEF update_retry, Goto
<1>28. ASSUME NEW m \in Msg, NEW h \in Msg, mark_forgotten(m, h) PROVE AppliedInv'
  BY <1>28 DEF mark_forgotten, Goto
<1>29. CASE process_batch
  BY <1>29 DEF process_batch, DueRows, batch_check_duplicates, batch_check_forgotten
<1>30. CASE batch_delete_pending
  BY <1>30 DEF batch_delete_pending, AllCollected, EndBatch, DeletePending
<1>31. CASE batch_delete_fails
  BY <1>31 DEF batch_delete_fails, AllCollected, EndBatch, Fault
<1>32. CASE crash
  BY <1>32 DEF crash, EndBatch, Fault
<1>33. CASE UNCHANGED vars
  BY <1>33 DEF vars
<1>. QED
  BY <1>1, <1>2, <1>3, <1>4, <1>5, <1>6, <1>7, <1>8, <1>9, <1>10, <1>11, <1>12, <1>13, <1>14,
     <1>15, <1>16, <1>17, <1>18, <1>19, <1>20, <1>21, <1>22, <1>23, <1>24, <1>25, <1>26, <1>27,
     <1>28, <1>29, <1>30, <1>31, <1>32, <1>33
     DEF Next, Ingress, Services, TaskStep, TaskFault, Collect

\* A message recorded in messages without chain sync had its handler's rows
\* written, and lost them only to a FORGET.
THEOREM GossipIsApplied == Spec => []RecordedIsApplied
<1>1. Init => AppliedInv
  BY AppliedInit
<1>2. TypeOK /\ AppliedInv /\ [Next]_vars => AppliedInv'
  BY AppliedNext
<1>3. AppliedInv => RecordedIsApplied
  BY DEF AppliedInv
<1>. QED
  BY <1>1, <1>2, <1>3, TypeCorrect, PTL DEF Spec

-----------------------------------------------------------------------------
(* MessageLifecycle                                                        *)

\* Rows that say a message is there without having been applied.
Known == pending \cup messages \cup rejected

(***************************************************************************)
(* What holds of a batch besides the invariants above.                     *)
(***************************************************************************)

\* Between batches no task is left.
IdleIsEmpty == phase = "idle" => \A m \in Msg : task[m] = "none"

\* A message that is being processed keeps its pending row until its task is over.
HandIsPending == \A m \in Msg : task[m] # "none" => m \in pending

\* What a FORGET has still to do was found, or has been forgotten since.
TargetsAreKnown ==
    \A f \in Msg : task[f] \in {"mark", "erase", "remove"} =>
        \A h \in left[f] : \/ h \in messages \cup forgotten
                           \/ h \in derived /\ Kind[h] = "POST"

BatchInv == IdleIsEmpty /\ HandIsPending /\ TargetsAreKnown /\ MarkedBeforeErased

\* The invariant holds initially.
LEMMA BatchInit == Init => BatchInv
BY ConstantsAssumption DEF Init, BatchInv, IdleIsEmpty, HandIsPending, TargetsAreKnown,
   MarkedBeforeErased

\* Every step preserves it.
LEMMA BatchNext == TypeOK /\ BatchInv /\ [Next]_vars => BatchInv'
<1> SUFFICES ASSUME TypeOK, BatchInv, [Next]_vars PROVE BatchInv'
  OBVIOUS
<1> USE ConstantsAssumption DEF TypeOK, Tasks, Running, Results, BatchInv, IdleIsEmpty,
       HandIsPending, TargetsAreKnown, MarkedBeforeErased,
       rowVars, tableVars, syncVars, batchVars, forgetVars, histVars
<1>1. ASSUME NEW m \in Msg, insert_pending_message(m) \/ post_message(m) PROVE BatchInv'
  BY <1>1 DEF insert_pending_message, post_message, InsertPending
<1>2. ASSUME NEW m \in Msg, batch_insert_messages(m) \/ batch_insert_unfiltered(m)
      PROVE BatchInv'
  BY <1>2 DEF batch_insert_messages, batch_insert_unfiltered
<1>3. ASSUME NEW m \in Msg, Services(m) PROVE BatchInv'
  BY <1>3 DEF Services, queue_messages_for_processing, InsertPending, queue_messages_fails,
       get_unfetched_messages, content_fetch, content_fetch_fails,
       resolve_and_update_content, resolve_fails
<1>4. ASSUME NEW m \in Msg, elapse(m) PROVE BatchInv'
  BY <1>4 DEF elapse
<1>5. CASE process_batch
  BY <1>5 DEF process_batch, DueRows
<1>6. ASSUME NEW m \in Msg, parse_fails(m) \/ reject_message(m) \/ defer_pending(m)
      PROVE BatchInv'
  BY <1>6 DEF parse_fails, reject_message, defer_pending, MayStart, Goto
<1>7. ASSUME NEW m \in Msg, process_single_message(m) PROVE BatchInv'
  <2>1. Kind[m] = "FORGET" => \A h \in Hashes[m] : \/ h \in messages
                                                   \/ h \in derived /\ Kind[h] = "POST"
    BY <1>7 DEF process_single_message, validate, forget_validate, check_ownership
  <2>2. task[m] = "queued" /\ UNCHANGED <<phase, pending, tableVars, target>>
        /\ task' = [task EXCEPT ![m] = IF Kind[m] = "FORGET" THEN "mark" ELSE "apply"]
        /\ left' = IF Kind[m] = "FORGET" THEN [left EXCEPT ![m] = Hashes[m]] ELSE left
    BY <1>7 DEF process_single_message, MayStart, Goto
  <2>. QED
    BY <2>1, <2>2
<1>8. ASSUME NEW m \in Msg, handler_process(m) PROVE BatchInv'
  BY <1>8 DEF handler_process, Goto
<1>9. ASSUME NEW m \in Msg, store_processed_message(m) PROVE BatchInv'
  BY <1>9 DEF store_processed_message, Goto
<1>10. ASSUME NEW m \in Msg, NEW h \in Msg, mark_forgotten(m, h) PROVE BatchInv'
  BY <1>10 DEF mark_forgotten, Goto
<1>11. ASSUME NEW m \in Msg, cascade_forget(m) PROVE BatchInv'
  <2>1. task[m] = "erase"
    BY <1>11 DEF cascade_forget
  <2>2. /\ forgotten \subseteq forgotten' /\ messages \ messages' \subseteq forgotten'
        /\ \A h \in derived : Kind[h] = "POST" => h \in derived' \cup forgotten'
    BY <1>11, <2>1, ErasedIsMarked
  <2>. QED
    BY <1>11, <2>2 DEF cascade_forget, Goto
<1>12. ASSUME NEW m \in Msg, delete_message(m) PROVE BatchInv'
  BY <1>12 DEF delete_message, Goto
<1>13. ASSUME NEW m \in Msg, handler_db_error(m) \/ task_error(m) PROVE BatchInv'
  <2>1. task[m] # "none"
    BY <1>13 DEF handler_db_error, task_error, MayStart
  <2>2. /\ forgotten \subseteq forgotten' /\ messages \ messages' \subseteq forgotten'
        /\ \A h \in derived : Kind[h] = "POST" => h \in derived' \cup forgotten'
    BY <1>13, ErasedIsMarked DEF handler_db_error, task_error, PartialWrites
  <2>. QED
    BY <1>13, <2>1, <2>2 DEF handler_db_error, task_error, Goto
<1>14. ASSUME NEW m \in Msg, Collect(m) \/ result_not_written(m) PROVE BatchInv'
  <2>1. CASE collect_processed(m)
    BY <2>1 DEF collect_processed, Goto, AllEnded, Ended
  <2>2. CASE collect_deferred(m)
    BY <2>2 DEF collect_deferred, Goto, AllEnded, Ended
  <2>3. CASE move_to_rejected(m)
    BY <2>3 DEF move_to_rejected, DeletePending, Goto, AllEnded, Ended
  <2>4. CASE update_retry(m)
    BY <2>4 DEF update_retry, Goto, AllEnded, Ended
  <2>5. CASE result_not_written(m)
    BY <2>5 DEF result_not_written, Goto, AllEnded, Ended
  <2>. QED
    BY <1>14, <2>1, <2>2, <2>3, <2>4, <2>5 DEF Collect
<1>15. CASE batch_delete_pending \/ batch_delete_fails
  BY <1>15 DEF batch_delete_pending, batch_delete_fails, DeletePending, EndBatch, AllCollected
<1>16. CASE crash
  BY <1>16 DEF crash, EndBatch
<1>17. CASE UNCHANGED vars
  BY <1>17 DEF vars
<1>. QED
  BY <1>1, <1>2, <1>3, <1>4, <1>5, <1>6, <1>7, <1>8, <1>9, <1>10, <1>11, <1>12, <1>13, <1>14,
     <1>15, <1>16, <1>17 DEF Next, Ingress, TaskStep, TaskFault

(***************************************************************************)
(* The steps of MessageLifecycle, recognized by what they change here.     *)
(***************************************************************************)

Lives == Lifecycle!Next \/ UNCHANGED <<Life, Hand>>

\* Every message has a stage, and which one only three facts tell.
LEMMA StageFacts ==
  /\ Life \in [Msg -> Lifecycle!Stages]
  /\ \A m \in Msg : /\ Life[m] = "forgotten" <=> m \in forgotten \ derived
                    /\ Life[m] = "leaving" <=> m \in forgotten \cap derived
                    /\ Life[m] = "effective" <=> m \in derived \ forgotten
                    /\ Life[m] = "waiting" <=> m \in Known \ (derived \cup forgotten)
                    /\ Life[m] = "absent" <=> m \notin Known \cup derived \cup forgotten
BY DEF Life, Stage, Known, Lifecycle!Stages

\* A batch puts down some of its messages, or nothing happens.
LEMMA IsPutDown ==
  ASSUME Known' = Known, UNCHANGED <<derived, forgotten>>, Hand' \subseteq Hand
  PROVE  Lives
<1>1. Life' = Life
  BY DEF Life, Stage, Known
<1>. QED
  BY <1>1 DEF Lives, Lifecycle!Next, Lifecycle!PutDown

\* A row of m comes into one of the tables.
LEMMA IsReceive ==
  ASSUME NEW m \in Msg, UNCHANGED <<derived, forgotten, Hand>>,
         Known' \in {Known, Known \cup {m}}
  PROVE  Lives
<1>1. CASE Life[m] = "absent" /\ Known' # Known
  <2>1. Life' = [Life EXCEPT ![m] = "waiting"]
    BY <1>1, StageFacts DEF Life, Stage, Known
  <2>. QED
    BY <1>1, <2>1 DEF Lives, Lifecycle!Next, Lifecycle!Receive
<1>2. CASE Life[m] # "absent" \/ Known' = Known
  <2>1. Life' = Life
    BY <1>2, StageFacts DEF Life, Stage, Known
  <2>. QED
    BY <2>1 DEF Lives
<1>. QED
  BY <1>1, <1>2

\* A task of the batch writes its handler's row.
LEMMA IsApply ==
  ASSUME NEW m \in Hand, derived' = derived \cup {m}, UNCHANGED <<forgotten, Hand>>,
         Known' = Known
  PROVE  Lives
<1>1. m \in Msg
  BY DEF Hand
<1>2. Life' = [Life EXCEPT ![m] = IF @ \in {"leaving", "forgotten"} THEN "leaving"
                                  ELSE "effective"]
  BY <1>1, StageFacts DEF Life, Stage, Known
<1>. QED
  BY <1>1, <1>2 DEF Lives, Lifecycle!Next, Lifecycle!Apply

\* A FORGET of the batch marks and erases what it may forget, and undoes its updates.
LEMMA IsForget ==
  ASSUME NEW f \in Hand, UNCHANGED Hand,
         forgotten \subseteq forgotten', derived' \subseteq derived,
         \A m \in Msg : m \in (forgotten' \ forgotten) \cup (derived \ derived') =>
             \/ Authorizes(f, m) /\ m \in forgotten' /\ m \in Known \cup derived \cup forgotten
             \/ /\ m \in derived \ derived' /\ forgotten' \cap {m} = forgotten \cap {m}
                /\ \E o \in forgotten \cap Msg : IsUpdate(m, o) /\ Authorizes(f, o),
         \A m \in Msg \ forgotten' : m \in Known <=> m \in Known'
  PROVE  Lives
<1>1. f \in Msg
  BY DEF Hand
<1>2. Life' \in [Msg -> Lifecycle!Stages]
  BY DEF Life, Stage, Lifecycle!Stages
<1>3. ASSUME NEW m \in Msg, Life'[m] # Life[m]
      PROVE  Lifecycle!MayLose(f, m) \/ Lifecycle!MayUndo(f, m)
  <2>1. m \in (forgotten' \ forgotten) \cup (derived \ derived')
    BY <1>3 DEF Life, Stage, Known
  <2>2. CASE Authorizes(f, m) /\ m \in forgotten' /\ m \in Known \cup derived \cup forgotten
    <3>1. Life'[m] = IF m \in derived' THEN "leaving" ELSE "forgotten"
      BY <2>2 DEF Life, Stage
    <3>2. <<f, m>> \in Authorized
      BY <1>1, <2>2 DEF Authorized
    <3>. QED
      BY <1>3, <2>2, <3>1, <3>2 DEF Life, Stage, Known, Lifecycle!MayLose
  <2>3. CASE /\ m \in derived \ derived' /\ forgotten' \cap {m} = forgotten \cap {m}
             /\ \E o \in forgotten \cap Msg : IsUpdate(m, o) /\ Authorizes(f, o)
    <3>1. PICK o \in forgotten \cap Msg : IsUpdate(m, o) /\ Authorizes(f, o)
      BY <2>3
    <3>2. <<m, o>> \in Updates /\ <<f, o>> \in Authorized
      BY <1>1, <3>1 DEF Updates, Authorized
    <3>3. Lifecycle!Forgotten(o)
      BY <3>1 DEF Lifecycle!Forgotten, Life, Stage
    <3>4. <<Life[m], Life'[m]>> \in {<<"effective", "waiting">>, <<"effective", "absent">>,
                                    <<"leaving", "forgotten">>}
      BY <2>3 DEF Life, Stage
    <3>. QED
      BY <3>1, <3>2, <3>3, <3>4 DEF Lifecycle!MayUndo
  <2>. QED
    BY <2>1, <2>2, <2>3
<1>. QED
  BY <1>1, <1>2, <1>3 DEF Lives, Lifecycle!Next, Lifecycle!Forget

\* The last batch is over, a new one begins.
LEMMA IsTakeUp ==
  ASSUME Known' = Known, UNCHANGED <<derived, forgotten>>, Hand = {},
         Hand' \subseteq (Known \cup derived) \ forgotten
  PROVE  Lives
<1>1. Life' = Life
  BY DEF Life, Stage, Known
<1>2. Hand' \subseteq {m \in Msg : Life[m] \in {"waiting", "effective"}}
  BY StageFacts DEF Hand
<1>. QED
  BY <1>1, <1>2 DEF Lives, Lifecycle!Next, Lifecycle!TakeUp

\* Pending rows go of which nothing is left to do.
LEMMA IsIgnore ==
  ASSUME UNCHANGED <<derived, forgotten, Hand>>, Known' \subseteq Known,
         Known \ Known' \subseteq derived \cup forgotten \cup Blacklisted \cup Orphaned
  PROVE  Lives
<1>1. Life' \in [Msg -> Lifecycle!Stages]
  BY DEF Life, Stage, Lifecycle!Stages
<1>2. ASSUME NEW m \in Msg, Life'[m] # Life[m]
      PROVE  /\ \/ m \in Blacklisted
                \/ \E o \in Msg : <<m, o>> \in Updates /\ Lifecycle!Forgotten(o)
             /\ Life[m] = "waiting" /\ Life'[m] = "absent"
  <2>1. m \in Known \ Known' /\ m \notin derived \cup forgotten
    BY <1>2 DEF Life, Stage, Known
  <2>2. Life[m] = "waiting" /\ Life'[m] = "absent"
    BY <2>1 DEF Life, Stage, Known
  <2>3. CASE m \in Orphaned
    <3>1. PICK o \in forgotten : IsUpdate(m, o)
      BY <2>3 DEF Orphaned
    <3>2. o \in Msg /\ <<m, o>> \in Updates
      BY <3>1, ConstantsAssumption DEF IsUpdate, Updates
    <3>3. Lifecycle!Forgotten(o)
      BY <3>1, <3>2 DEF Lifecycle!Forgotten, Life, Stage
    <3>. QED
      BY <2>2, <3>2, <3>3
  <2>. QED
    BY <2>1, <2>2, <2>3
<1>. QED
  BY <1>1, <1>2 DEF Lives, Lifecycle!Next, Lifecycle!Ignore

-----------------------------------------------------------------------------

\* What a FORGET removes from posts, or from messages, is its target or an amend of
\* it; what else it removes are the rows of updates of its target.
LEMMA EraseIsAuthorized ==
  ASSUME TypeOK, AuthorityInv, BatchInv, NEW f \in Msg, task[f] = "erase",
         NEW marked \in SUBSET AmendsOf(target[f]),
         NEW stripped \in SUBSET (marked \cup {target[f]}),
         NEW gone \in SUBSET VmUpdatesOf(target[f]),
         NEW removed \in SUBSET marked,
         EraseRows(marked, stripped \cup gone, removed),
         UNCHANGED <<pending, rejected, Hand>>
  PROVE  Lives
<1> USE ConstantsAssumption DEF TypeOK, BatchInv, MarkedBeforeErased
<1>1. f \in Hand
  BY DEF Hand
<1>2. \A m \in marked : /\ m \in Msg /\ m \in derived
                        /\ Kind[target[f]] = "POST" /\ Original[m] = target[f]
  BY DEF AmendsOf
<1>3. /\ Kind[f] = "FORGET" /\ f \notin BadSig
      /\ target[f] \in Hashes[f] /\ Sender[target[f]] = Sender[f]
      /\ target[f] \in forgotten
  BY DEF AuthorityInv, ForgetTasksAuthorized
<1>4. ASSUME NEW m \in marked \cup {target[f]}
      PROVE  Authorizes(f, m) /\ m \in forgotten' /\ m \in derived \cup forgotten
  <2>1. Authorizes(f, m)
    BY <1>2, <1>3 DEF Authorizes
  <2>. QED
    BY <1>2, <1>3, <2>1 DEF EraseRows
<1>5. ASSUME NEW m \in gone
      PROVE  \E o \in forgotten \cap Msg : IsUpdate(m, o) /\ Authorizes(f, o)
  <2>1. IsUpdate(m, target[f]) /\ target[f] \in Msg
    BY DEF VmUpdatesOf
  <2>2. Authorizes(f, target[f])
    BY <1>4
  <2>. QED
    BY <1>3, <2>1, <2>2
<1>6. \A m \in Msg : m \in (forgotten' \ forgotten) \cup (derived \ derived') =>
          \/ Authorizes(f, m) /\ m \in forgotten' /\ m \in Known \cup derived \cup forgotten
          \/ /\ m \in derived \ derived' /\ forgotten' \cap {m} = forgotten \cap {m}
             /\ \E o \in forgotten \cap Msg : IsUpdate(m, o) /\ Authorizes(f, o)
  <2> SUFFICES ASSUME NEW m \in Msg,
                      m \in (forgotten' \ forgotten) \cup (derived \ derived'),
                      m \notin marked \cup {target[f]}
               PROVE  /\ m \in derived \ derived' /\ forgotten' \cap {m} = forgotten \cap {m}
                      /\ \E o \in forgotten \cap Msg : IsUpdate(m, o) /\ Authorizes(f, o)
    BY <1>4
  <2>1. m \notin forgotten' \ forgotten /\ m \in derived \ derived' /\ m \in gone
    BY DEF EraseRows
  <2>2. forgotten' \cap {m} = forgotten \cap {m}
    BY DEF EraseRows
  <2>. QED
    BY <1>5, <2>1, <2>2
<1>7. forgotten \subseteq forgotten' /\ derived' \subseteq derived
  BY DEF EraseRows
<1>8. \A m \in Msg \ forgotten' : m \in Known <=> m \in Known'
  BY DEF EraseRows, Known
<1>. QED
  BY <1>1, <1>6, <1>7, <1>8, IsForget

\* A cut or failed task leaves no row, its handler's row, or a prefix of its cascade.
LEMMA PartialLives ==
  ASSUME TypeOK, AuthorityInv, BatchInv, NEW m \in Msg, task[m] # "none",
         PartialWrites(m), UNCHANGED <<pending, rejected, Hand>>
  PROVE  Lives
<1> USE DEF BatchInv
<1>1. m \in Hand
  BY DEF Hand
<1>2. CASE derived' = derived \cup {m} /\ UNCHANGED <<forgotten, messages>>
  BY <1>1, <1>2, IsApply DEF Known
<1>3. CASE task[m] = "erase" /\ PartialErase(m)
  <2>. DEFINE amends == AmendsOf(target[m])
              updates == VmUpdatesOf(target[m])
  <2>1. PICK marked \in SUBSET amends :
           \E removed \in SUBSET marked, stripped \in SUBSET (marked \cup {target[m]}) :
              \E gone \in {{}, {a \in updates : Kind[a] = "INSTANCE"}, updates} :
                 EraseRows(marked, stripped \cup gone, removed)
    BY <1>3 DEF PartialErase
  <2>2. PICK removed \in SUBSET marked, stripped \in SUBSET (marked \cup {target[m]}) :
           \E gone \in {{}, {a \in updates : Kind[a] = "INSTANCE"}, updates} :
              EraseRows(marked, stripped \cup gone, removed)
    BY <2>1
  <2>3. PICK gone \in {{}, {a \in updates : Kind[a] = "INSTANCE"}, updates} :
           EraseRows(marked, stripped \cup gone, removed)
    BY <2>2
  <2>4. gone \in SUBSET updates
    BY <2>3
  <2>. HIDE DEF amends, updates
  <2>. QED
    BY <1>3, <2>1, <2>2, <2>3, <2>4, EraseIsAuthorized DEF amends, updates
<1>4. CASE UNCHANGED <<forgotten, messages, derived>>
  BY <1>4, IsPutDown DEF Known
<1>. QED
  BY <1>2, <1>3, <1>4 DEF PartialWrites

\* Every step of the processor, of ingress, of the content services and of what goes
\* wrong is a step of MessageLifecycle, or leaves every message where it is.
LEMMA StepLives ==
  ASSUME TypeOK, LossInv, AuthorityInv, BatchInv, [Next]_vars
  PROVE  Lives
<1> USE ConstantsAssumption DEF rowVars, tableVars, syncVars, batchVars, forgetVars, histVars
<1>1. ASSUME NEW m \in Msg, Ingress(m) PROVE Lives
  <2>1. UNCHANGED <<derived, forgotten, Hand>> /\ Known' \in {Known, Known \cup {m}}
    BY <1>1 DEF Ingress, insert_pending_message, post_message, InsertPending,
         batch_insert_messages, batch_insert_unfiltered, Hand, Known
  <2>. QED
    BY <2>1, IsReceive
<1>2. ASSUME NEW m \in Msg, Services(m) PROVE Lives
  <2>1. UNCHANGED <<derived, forgotten, Hand>> /\ Known' \in {Known, Known \cup {m}}
    BY <1>2 DEF Services, queue_messages_for_processing, InsertPending, queue_messages_fails,
         get_unfetched_messages, content_fetch, content_fetch_fails,
         resolve_and_update_content, resolve_fails, Hand, Known
  <2>. QED
    BY <2>1, IsReceive
<1>3. ASSUME NEW m \in Msg, elapse(m) PROVE Lives
  BY <1>3, IsPutDown DEF elapse, Hand, Known
<1>4. CASE process_batch
  <2>1. Hand = {}
    BY <1>4 DEF process_batch, BatchInv, IdleIsEmpty, Hand
  <2>2. Hand' \subseteq (Known \cup derived) \ forgotten
    BY <1>4 DEF process_batch, DueRows, batch_check_forgotten, Hand, Known
  <2>3. Known' = Known /\ UNCHANGED <<derived, forgotten>>
    BY <1>4 DEF process_batch, Known
  <2>. QED
    BY <2>1, <2>2, <2>3, IsTakeUp
<1>5. ASSUME NEW m \in Msg, parse_fails(m) \/ reject_message(m) \/ defer_pending(m)
                            \/ process_single_message(m)
      PROVE  Lives
  <2>1. UNCHANGED <<Known, derived, forgotten>> /\ Hand' \subseteq Hand
    BY <1>5 DEF TypeOK, parse_fails, reject_message, defer_pending, process_single_message,
         MayStart, Goto, Hand, Known
  <2>. QED
    BY <2>1, IsPutDown
<1>6. ASSUME NEW m \in Msg, handler_process(m) PROVE Lives
  <2>1. m \in Hand /\ UNCHANGED <<Known, forgotten, Hand>> /\ derived' = derived \cup {m}
    BY <1>6 DEF TypeOK, handler_process, Goto, Hand, Known
  <2>. QED
    BY <2>1, IsApply
<1>7. ASSUME NEW m \in Msg, store_processed_message(m) PROVE Lives
  <2>1. UNCHANGED <<derived, forgotten, Hand>> /\ Known' \in {Known, Known \cup {m}}
    BY <1>7 DEF TypeOK, store_processed_message, Goto, Hand, Known
  <2>. QED
    BY <2>1, IsReceive
<1>8. ASSUME NEW f \in Msg, NEW h \in Msg, mark_forgotten(f, h) PROVE Lives
  <2>1. f \in Hand /\ UNCHANGED Hand
    BY <1>8 DEF TypeOK, mark_forgotten, Goto, Hand
  <2>2. Authorizes(f, h) /\ h \in Known \cup derived \cup forgotten
    BY <1>8 DEF mark_forgotten, AuthorityInv, ForgetTasksAuthorized, Authorizes, BatchInv,
         TargetsAreKnown, Known
  <2>3. UNCHANGED <<Known, derived>> /\ forgotten' = forgotten \cup {h}
    BY <1>8 DEF mark_forgotten, Known
  <2>. QED
    BY <2>1, <2>2, <2>3, IsForget
<1>9. ASSUME NEW f \in Msg, cascade_forget(f) PROVE Lives
  <2>1. UNCHANGED <<pending, rejected, Hand>>
    BY <1>9 DEF TypeOK, cascade_forget, Goto, Hand
  <2>2. CASE f \in typed
    <3>. DEFINE amends == AmendsOf(target[f])
                updates == VmUpdatesOf(target[f])
    <3>1. task[f] = "erase" /\ EraseRows(amends, (amends \cup {target[f]}) \cup updates, amends)
      BY <1>9, <2>2 DEF cascade_forget
    <3>2. \E marked \in SUBSET amends :
          \E removed \in SUBSET marked :
          \E stripped \in SUBSET (marked \cup {target[f]}) :
          \E gone \in {{}, {a \in updates : Kind[a] = "INSTANCE"}, updates} :
             /\ removed \subseteq stripped
             /\ target[f] \in stripped => removed = amends /\ gone = updates
             /\ EraseRows(marked, stripped \cup gone, removed)
      <4>. WITNESS amends \in SUBSET amends
      <4>. WITNESS amends \in SUBSET amends
      <4>. WITNESS amends \cup {target[f]} \in SUBSET (amends \cup {target[f]})
      <4>. WITNESS updates \in {{}, {a \in updates : Kind[a] = "INSTANCE"}, updates}
      <4>. QED
        BY <3>1
    <3>3. PartialErase(f)
      BY <3>2 DEF PartialErase
    <3>. QED
      BY <1>9, <2>1, <2>2, <3>1, <3>3, PartialLives DEF PartialWrites
  <2>3. CASE f \notin typed
    BY <1>9, <2>1, <2>3, IsPutDown DEF cascade_forget, Known
  <2>. QED
    BY <2>2, <2>3
<1>10. ASSUME NEW f \in Msg, delete_message(f) PROVE Lives
  <2>1. f \in Hand /\ UNCHANGED <<Hand, derived, forgotten>>
    BY <1>10 DEF TypeOK, delete_message, Goto, Hand
  <2>2. target[f] \in forgotten /\ \A m \in Msg \ forgotten : m \in Known <=> m \in Known'
    BY <1>10 DEF delete_message, BatchInv, MarkedBeforeErased, Known
  <2>. QED
    BY <2>1, <2>2, IsForget
<1>11. ASSUME NEW m \in Msg, handler_db_error(m) \/ task_error(m) PROVE Lives
  <2>1. task[m] # "none" /\ PartialWrites(m)
    BY <1>11 DEF handler_db_error, task_error, MayStart, Running
  <2>2. UNCHANGED <<pending, rejected, Hand>>
    BY <1>11, <2>1 DEF TypeOK, handler_db_error, task_error, Goto, Hand
  <2>. QED
    BY <2>1, <2>2, PartialLives
<1>12. ASSUME NEW m \in Msg, Collect(m) \/ result_not_written(m) PROVE Lives
  <2>1. task[m] # "none"
    BY <1>12 DEF Collect, result_not_written, collect_processed, collect_deferred,
         move_to_rejected, update_retry, Moves
  <2>2. m \in pending
    BY <2>1 DEF BatchInv, HandIsPending
  <2>3. UNCHANGED <<derived, forgotten>> /\ Known' = Known
    BY <1>12, <2>2 DEF Collect, result_not_written, collect_processed, collect_deferred,
         move_to_rejected, update_retry, DeletePending, Known
  <2>4. Hand' \subseteq Hand
    BY <1>12 DEF TypeOK, Collect, result_not_written, collect_processed, collect_deferred,
         move_to_rejected, update_retry, Goto, Hand
  <2>. QED
    BY <2>3, <2>4, IsPutDown
<1>13. CASE batch_delete_pending
  <2>1. UNCHANGED <<derived, forgotten, Hand>>
    BY <1>13 DEF batch_delete_pending, Hand
  <2>2. Known' \subseteq Known /\ Known \ Known' \subseteq toDelete \ messages
    BY <1>13 DEF batch_delete_pending, DeletePending, Known
  <2>3. Known \ Known' \subseteq derived \cup forgotten \cup Blacklisted \cup Orphaned
    BY <2>2 DEF LossInv, DropIsSafe
  <2>. QED
    BY <2>1, <2>2, <2>3, IsIgnore
<1>14. CASE batch_delete_fails \/ crash
  <2>1. UNCHANGED <<Known, derived, forgotten>> /\ Hand' \subseteq Hand
    BY <1>14 DEF batch_delete_fails, crash, Hand, Known
  <2>. QED
    BY <2>1, IsPutDown
<1>15. CASE UNCHANGED vars
  BY <1>15, IsPutDown DEF vars, Hand, Known
<1>. QED
  BY <1>1, <1>2, <1>3, <1>4, <1>5, <1>6, <1>7, <1>8, <1>9, <1>10, <1>11, <1>12, <1>13, <1>14,
     <1>15 DEF Next, TaskStep, TaskFault

\* A node keeps MessageLifecycle's promise about every message, with any number of
\* faults: nothing waits and vanishes, nothing that took effect loses it but to an
\* authorized FORGET, and what is forgotten is taken up by no later batch.
THEOREM LifecycleKept == Spec => FollowsLifecycle
<1>. DEFINE Inv == TypeOK /\ LossInv /\ OnlyReceived /\ AuthorityInv /\ BatchInv
<1>1. Init => Inv /\ Lifecycle!Init
  <2>1. Init => Lifecycle!Init
    BY DEF Init, Lifecycle!Init, Life, Hand, Stage
  <2>. QED
    BY <2>1, TypeInit, LossInit, ReceivedInit, AuthorityInit, BatchInit
<1>2. Inv /\ [Next]_vars => Inv'
  BY TypeNext, LossNext, ReceivedNext, AuthorityNext, BatchNext
<1>3. Inv /\ [Next]_vars => [Lifecycle!Next]_<<Life, Hand>>
  BY StepLives DEF Lives
<1>. QED
  BY <1>1, <1>2, <1>3, PTL DEF Spec, FollowsLifecycle, Lifecycle!Spec

-----------------------------------------------------------------------------

\* Forgotten, without rows, and in no batch.
Erased(t) == t \in forgotten \ derived /\ task[t] = "none"

\* No step gives such a message rows, or takes it up.
LEMMA ErasedStays ==
  ASSUME NEW t \in Msg, TypeOK, BatchInv, Erased(t), [Next]_vars
  PROVE  Erased(t)'
<1> USE ConstantsAssumption DEF Erased, TypeOK, Tasks, Running, Results,
       rowVars, tableVars, syncVars, batchVars, forgetVars, histVars
<1>1. ASSUME NEW m \in Msg, Ingress(m) \/ Services(m) \/ elapse(m) PROVE Erased(t)'
  BY <1>1 DEF Ingress, insert_pending_message, post_message,
       batch_insert_messages, batch_insert_unfiltered, Services, queue_messages_for_processing,
       queue_messages_fails, get_unfetched_messages, content_fetch,
       content_fetch_fails, resolve_and_update_content, resolve_fails, elapse
<1>2. CASE process_batch
  BY <1>2 DEF process_batch, batch_check_forgotten
<1>3. ASSUME NEW m \in Msg, TaskStep(m) PROVE Erased(t)'
  <2>1. task[m] # "none"
    BY <1>3 DEF TaskStep, parse_fails, process_single_message, reject_message, handler_process,
         store_processed_message, mark_forgotten, cascade_forget, delete_message, MayStart
  <2>2. /\ forgotten \subseteq forgotten' /\ derived' \subseteq derived \cup {m}
        /\ \A n \in Msg \ {m} : task'[n] = task[n]
    BY <1>3 DEF TaskStep, parse_fails, process_single_message, reject_message, handler_process,
         store_processed_message, mark_forgotten, cascade_forget, EraseRows, delete_message, Goto
  <2>. QED
    BY <2>1, <2>2
<1>4. ASSUME NEW m \in Msg, TaskFault(m) PROVE Erased(t)'
  <2>1. task[m] # "none"
    BY <1>4 DEF TaskFault, defer_pending, handler_db_error, task_error, result_not_written, MayStart
  <2>2. /\ forgotten \subseteq forgotten' /\ derived' \subseteq derived \cup {m}
        /\ \A n \in Msg \ {m} : task'[n] = task[n]
    BY <1>4 DEF TaskFault, defer_pending, handler_db_error, task_error, result_not_written,
         PartialWrites, PartialErase, EraseRows, Goto
  <2>. QED
    BY <2>1, <2>2
<1>5. ASSUME NEW m \in Msg, Collect(m) PROVE Erased(t)'
  BY <1>5 DEF Collect, collect_processed, collect_deferred, move_to_rejected, update_retry, Goto
<1>6. CASE batch_delete_pending \/ batch_delete_fails \/ crash
  BY <1>6 DEF batch_delete_pending, batch_delete_fails, crash
<1>7. CASE UNCHANGED vars
  BY <1>7 DEF vars
<1>. QED
  BY <1>1, <1>2, <1>3, <1>4, <1>5, <1>6, <1>7 DEF Next

\* What a FORGET has erased when its batch is over never comes back.
THEOREM ForgottenIsErased == Spec => ForgottenStaysErased
<1>1. Init => TypeOK /\ BatchInv
  BY TypeInit, BatchInit
<1>2. TypeOK /\ BatchInv /\ [Next]_vars => TypeOK' /\ BatchInv'
  BY TypeNext, BatchNext
<1>3. ASSUME NEW t \in Msg
      PROVE  Spec => [](t \in forgotten \ derived /\ phase = "idle" => [](t \notin derived))
  <2>1. BatchInv /\ t \in forgotten \ derived /\ phase = "idle" => Erased(t)
    BY DEF BatchInv, IdleIsEmpty, Erased
  <2>2. TypeOK /\ BatchInv /\ Erased(t) /\ [Next]_vars => Erased(t)'
    BY ErasedStays
  <2>3. Erased(t) => t \notin derived
    BY DEF Erased
  <2>. QED
    BY <1>1, <1>2, <2>1, <2>2, <2>3, PTL DEF Spec
<1>. QED
  BY <1>3 DEF ForgottenStaysErased

================================================================================
