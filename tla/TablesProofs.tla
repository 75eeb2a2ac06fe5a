------------------------------ MODULE TablesProofs ------------------------------
(***************************************************************************)
(* Proofs about what is derived from messages and what clients are given   *)
(* of it.                                                                  *)
(*                                                                         *)
(* Posts: whoever wrote a post, an amend or a list of authorizations had   *)
(* the right to (WritersHadTheRight), and a forgotten thread stays so      *)
(* (ForgottenThreadIsGone): for any messages, addresses, grants, batches,  *)
(* faults and restarts.  The checks of the code are made on what it read   *)
(* statements ago; the invariants say what still holds of it.              *)
(*                                                                         *)
(* Listing: a list read page by page while it changes (ListIsExact), for   *)
(* any table, sizes and requests.                                          *)
(*                                                                         *)
(* Pricing: two ways to one price agree (QuotesAgree), for any lists of    *)
(* prices and discounts, whenever they are published.                      *)
(***************************************************************************)
EXTENDS Posts, Listing, Pricing, FiniteSetTheorems, SequenceTheorems, WellFoundedInduction,
        TLAPS

\* Which statements the task of each kind of message has.
StepsFit ==
    /\ \A m \in Post : step[m] \in {"out", "permit", "insert", "store"}
    /\ \A a \in Amend : step[a] \in {"out", "validate", "lookup", "permit", "owner", "insert",
                                     "latest", "store"}
    /\ \A g \in Grant : step[g] \in {"out", "queued", "permit", "merge", "store"}
    /\ \A f \in Removal : step[f] \in {"out", "validate", "mark", "select", "amend",
                                       "amend_message", "row", "message", "store"}

\* A FORGET has marked its target before it deletes anything.
TargetIsMarked ==
    \A f \in Removal : step[f] \in {"select", "amend", "amend_message", "row", "message"} =>
        Target[f] \in forgotten

TypeInv == PostsTypeOK /\ StepsFit /\ TargetIsMarked

(***************************************************************************)
(* AmendOfOwner                                                            *)
(***************************************************************************)

BeforeInsert == {"validate", "lookup", "permit", "owner", "insert"}

\* A row came from a task that is past its INSERT, or from the backfill.
RowIsPast == \A m \in posts \ refilled : step[m] \notin BeforeInsert

\* The original of amend a was there once: it is there, or is forgotten and comes back by
\* the backfill alone.
WasThere(a) ==
    \/ Ref[a] \in refilled
    \/ step[Ref[a]] \notin BeforeInsert /\ Ref[a] \in posts \cup forgotten

OfOwner(a) == Ref[a] \in posts \ refilled => Attr[a].address = Attr[Ref[a]].address

OwnerInv ==
    /\ RowIsPast
    /\ \A a \in Amend \ Trusted :
          step[a] \in {"lookup", "permit", "owner", "insert"} \/ a \in posts \ refilled =>
              WasThere(a)
    /\ \A a \in Amend \ Trusted :
          step[a] = "insert" \/ a \in posts \ refilled => OfOwner(a)
    /\ \A p \in Post \cup Amend : \A a \in latest[p] : Ref[a] = p

(***************************************************************************)
(* DelegateHadGrant                                                        *)
(***************************************************************************)

HadGrant(m) ==
    \E auth \in ever[Attr[m].address] :
        \/ Covers(auth, Attr[m].sender, Attr[m])
        \/ m \in Amend /\ Covers(auth, Attr[m].sender, Attr[Ref[m]])

GrantInv ==
    /\ \A o \in Address : SecurityOf(o, grants) \subseteq ever[o]
    /\ \A m \in (Post \cup Amend) \ Trusted :
          Delegated(m) /\ (step[m] \in {"owner", "insert"} \/ m \in posts \ refilled) =>
              HadGrant(m)

(***************************************************************************)
(* OnlyOwnerGrants                                                         *)
(***************************************************************************)

\* The updates of o's list that no handler checks, and all others.
Unchecked(o) == {g \in Grant : Attr[g].address = o /\ ~ NeedsGrant(g)}
Foreign(o) == {g \in Grant : Attr[g].address = o} \ Unchecked(o)

\* None of the unchecked lists lets anybody else write the list.
Reserved(o) ==
    \A g \in Unchecked(o), h \in Foreign(o) : \A auth \in Authorizations[g] :
        ~ Covers(auth, Attr[h].sender, Attr[h])

ForeignInv ==
    \A o \in Address : Reserved(o) =>
        \A h \in Foreign(o) : h \notin grants /\ step[h] # "merge"

(***************************************************************************)
(* ForgottenThreadIsGone                                                   *)
(***************************************************************************)

\* The FORGET f has looked its target up and is still under way.
Erasing(f) == step[f] \in {"select", "amend", "amend_message", "row", "message", "store"}

\* The exceptions of the property: tasks that ran beside f, and what the backfill restored.
Spared(f) == beside[f] \cup refilled

AmendsGone(f, S) ==
    \A a \in posts \cap Amend : Ref[a] = Target[f] => a \in Spared(f) \cup S

TargetGone(f) == Target[f] \in posts => Target[f] \in Spared(f)

\* No task begins beside f once it has marked: only those that ran then can write.
ErasingInv(f) ==
    /\ Erasing(f) => /\ Target[f] \in forgotten
                     /\ \A m \in Item : step[m] # "out" => m \in beside[f]
    /\ step[f] = "amend" => AmendsGone(f, cascade[f])
    /\ step[f] = "amend_message" =>
          /\ AmendsGone(f, cascade[f])
          /\ \A a \in erasing[f] : a \in posts => a \in Spared(f)
    /\ step[f] \in {"row", "message", "store"} => AmendsGone(f, {})
    /\ step[f] \in {"message", "store"} => TargetGone(f)

\* Later batches find neither the post nor, therefore, a way to amend it.
FinishedInv(f) ==
    f \in finished =>
        /\ step[f] \in {"out", "validate"}
        /\ Target[f] \in forgotten
        /\ Target[f] \notin Spared(f) =>
              /\ TargetGone(f) /\ AmendsGone(f, {})
              /\ step[Target[f]] = "out"
              /\ \A a \in Amend \ Spared(f) : Ref[a] = Target[f] => step[a] \in {"out", "validate"}

ThreadInv == \A f \in Removal : ErasingInv(f) /\ FinishedInv(f)

(***************************************************************************)
(* The proofs                                                              *)
(***************************************************************************)

LEMMA TypeInit == PostsInit => TypeInv
<1> SUFFICES ASSUME PostsInit PROVE TypeInv
  OBVIOUS
<1>1. /\ step \in [Item -> Steps] /\ faults \in 0..MaxFaults
      /\ ever \in [Address -> SUBSET SecurityAuthorization]
  BY PostsAssumption DEF PostsInit, Steps
<1>2. PostsTypeOK
  BY <1>1 DEF PostsInit, PostsTypeOK
<1>3. StepsFit /\ TargetIsMarked
  BY DEF PostsInit, StepsFit, TargetIsMarked, Item
<1>. QED
  BY <1>2, <1>3 DEF TypeInv

\* Every statement keeps the types, and the order of its task's statements.
LEMMA TypeNext == TypeInv /\ [PostsNext]_postVars => TypeInv'
<1> SUFFICES ASSUME TypeInv, [PostsNext]_postVars PROVE TypeInv'
  OBVIOUS
<1> USE PostsAssumption DEF TypeInv, PostsTypeOK, StepsFit, TargetIsMarked, Steps, Item,
       tables, postLocals, counts, history, Advance, End
<1>1. CASE process_posts
  BY <1>1 DEF process_posts, FirstStep, NeedsGrant
<1>2. ASSUME NEW m \in Item, post_task_fails(m) PROVE TypeInv'
  BY <1>2 DEF post_task_fails
<1>3. ASSUME NEW m \in Item, check_permissions(m) PROVE TypeInv'
  <2>1. m \in Post \cup Amend \cup Grant
    BY <1>3 DEF check_permissions
  <2>2. CASE m \in Post
    <3>1. PICK to \in {"insert", "out"} : step' = [step EXCEPT ![m] = to]
      BY <1>3, <2>2 DEF check_permissions
    <3>. QED
      BY <1>3, <2>2, <3>1 DEF check_permissions
  <2>3. CASE m \in Amend
    <3>1. PICK to \in {"owner", "out"} : step' = [step EXCEPT ![m] = to]
      BY <1>3, <2>3 DEF check_permissions
    <3>. QED
      BY <1>3, <2>3, <3>1 DEF check_permissions
  <2>4. CASE m \in Grant
    <3>1. PICK to \in {"merge", "out"} : step' = [step EXCEPT ![m] = to]
      BY <1>3, <2>4 DEF check_permissions
    <3>. QED
      BY <1>3, <2>4, <3>1 DEF check_permissions
  <2>. QED
    BY <2>1, <2>2, <2>3, <2>4
<1>4. ASSUME NEW m \in Item, insert_post(m) PROVE TypeInv'
  BY <1>4 DEF insert_post
<1>5. ASSUME NEW m \in Item, store_post(m) PROVE TypeInv'
  BY <1>5 DEF store_post
<1>6. ASSUME NEW a \in Amend, validate_amend(a) PROVE TypeInv'
  <2>1. PICK to \in {"insert", "lookup", "owner", "out"} : step' = [step EXCEPT ![a] = to]
    BY <1>6 DEF validate_amend
  <2>. QED
    BY <1>6, <2>1 DEF validate_amend
<1>7. ASSUME NEW a \in Amend, lookup_original(a) PROVE TypeInv'
  <2>1. PICK to \in {"permit", "out"} : step' = [step EXCEPT ![a] = to]
    BY <1>7 DEF lookup_original
  <2>. QED
    BY <1>7, <2>1 DEF lookup_original
<1>8. ASSUME NEW a \in Amend, check_amend_owner(a) PROVE TypeInv'
  <2>1. PICK to \in {"insert", "out"} : step' = [step EXCEPT ![a] = to]
    BY <1>8 DEF check_amend_owner
  <2>. QED
    BY <1>8, <2>1 DEF check_amend_owner
<1>9. ASSUME NEW a \in Amend, update_latest_amend(a) PROVE TypeInv'
  BY <1>9 DEF update_latest_amend
<1>10. ASSUME NEW g \in Grant, start_security(g) PROVE TypeInv'
  BY <1>10 DEF start_security, NeedsGrant, Delegated
<1>11. ASSUME NEW g \in Grant, merge_security(g) PROVE TypeInv'
  <2>1. SecurityOf(Attr[g].address, grants') \subseteq SecurityAuthorization
    BY <1>11 DEF merge_security, SecurityOf
  <2>2. Attr[g].address \in Address
    BY DEF Envelope
  <2>3. ever' \in [Address -> SUBSET SecurityAuthorization]
    BY <1>11, <2>1, <2>2 DEF merge_security
  <2>4. step' = [step EXCEPT ![g] = "store"] /\ grants' \subseteq Grant
    BY <1>11 DEF merge_security
  <2>5. UNCHANGED <<posts, latest, messages, forgotten, postLocals, counts, beside, refilled,
                    finished>>
    BY <1>11 DEF merge_security
  <2>6. PostsTypeOK'
    BY <2>3, <2>4, <2>5
  <2>7. StepsFit' /\ TargetIsMarked'
    BY <2>4, <2>5
  <2>. QED
    BY <2>6, <2>7
<1>12. ASSUME NEW f \in Removal, validate_removal(f) PROVE TypeInv'
  <2>1. PICK to \in {"mark", "out"} : step' = [step EXCEPT ![f] = to]
    BY <1>12 DEF validate_removal
  <2>. QED
    BY <1>12, <2>1 DEF validate_removal
<1>13. ASSUME NEW f \in Removal, mark_removed(f) PROVE TypeInv'
  BY <1>13 DEF mark_removed
<1>14. ASSUME NEW f \in Removal, select_amends(f) PROVE TypeInv'
  BY <1>14 DEF select_amends
<1>15. ASSUME NEW f \in Removal, NEW a \in Amend, erase_amend(f, a) PROVE TypeInv'
  BY <1>15 DEF erase_amend
<1>16. ASSUME NEW f \in Removal, erase_amend_message(f) PROVE TypeInv'
  BY <1>16 DEF erase_amend_message
<1>17. ASSUME NEW f \in Removal, delete_post(f) PROVE TypeInv'
  BY <1>17 DEF delete_post
<1>18. ASSUME NEW f \in Removal, delete_post_message(f) PROVE TypeInv'
  BY <1>18 DEF delete_post_message
<1>19. ASSUME NEW m \in Trusted, insert_anchored(m) PROVE TypeInv'
  BY <1>19 DEF insert_anchored
<1>20. CASE backfill_insert
  BY <1>20 DEF backfill_insert
<1>21. CASE backfill_latest
  <2>1. latest' \in [Post \cup Amend -> SUBSET Amend]
    BY <1>21 DEF backfill_latest
  <2>. QED
    BY <1>21, <2>1 DEF backfill_latest
<1>22. CASE UNCHANGED postVars
  BY <1>22 DEF postVars
<1>. QED
  BY <1>1, <1>2, <1>3, <1>4, <1>5, <1>6, <1>7, <1>8, <1>9, <1>10, <1>11,
     <1>12, <1>13, <1>14, <1>15, <1>16, <1>17, <1>18, <1>19, <1>20, <1>21, <1>22
     DEF PostsNext, PostTask, AmendTask, RemovalTask

LEMMA OwnerInit == PostsInit => OwnerInv
BY PostsAssumption DEF PostsInit, OwnerInv, RowIsPast, BeforeInsert, Item

\* What the owner check compared is what is there, or has been forgotten.
LEMMA OwnerNext == TypeInv /\ OwnerInv /\ [PostsNext]_postVars => OwnerInv'
<1> SUFFICES ASSUME TypeInv, OwnerInv, [PostsNext]_postVars PROVE OwnerInv'
  OBVIOUS
<1> USE PostsAssumption DEF TypeInv, PostsTypeOK, StepsFit, TargetIsMarked, Steps, Item,
       OwnerInv, RowIsPast, WasThere, OfOwner, BeforeInsert,
       tables, postLocals, counts, history, Advance, End
<1>1. CASE process_posts
  BY <1>1 DEF process_posts, FirstStep, NeedsGrant
<1>2. ASSUME NEW m \in Item, post_task_fails(m) PROVE OwnerInv'
  BY <1>2 DEF post_task_fails
<1>3. ASSUME NEW m \in Item, check_permissions(m) PROVE OwnerInv'
  BY <1>3 DEF check_permissions, Checked, check_delegated_authorization
<1>4. ASSUME NEW m \in Item, insert_post(m) PROVE OwnerInv'
  BY <1>4 DEF insert_post
<1>5. ASSUME NEW m \in Item, store_post(m) PROVE OwnerInv'
  BY <1>5 DEF store_post
<1>6. ASSUME NEW a \in Amend, validate_amend(a) PROVE OwnerInv'
  BY <1>6 DEF validate_amend, Delegated
<1>7. ASSUME NEW a \in Amend, lookup_original(a) PROVE OwnerInv'
  BY <1>7 DEF lookup_original
<1>8. ASSUME NEW a \in Amend, check_amend_owner(a) PROVE OwnerInv'
  BY <1>8 DEF check_amend_owner
<1>9. ASSUME NEW a \in Amend, update_latest_amend(a) PROVE OwnerInv'
  BY <1>9 DEF update_latest_amend
<1>10. ASSUME NEW g \in Grant, start_security(g) PROVE OwnerInv'
  BY <1>10 DEF start_security, NeedsGrant, Delegated
<1>11. ASSUME NEW g \in Grant, merge_security(g) PROVE OwnerInv'
  BY <1>11 DEF merge_security
<1>12. ASSUME NEW f \in Removal, validate_removal(f) PROVE OwnerInv'
  BY <1>12 DEF validate_removal
<1>13. ASSUME NEW f \in Removal, mark_removed(f) PROVE OwnerInv'
  BY <1>13 DEF mark_removed
<1>14. ASSUME NEW f \in Removal, select_amends(f) PROVE OwnerInv'
  BY <1>14 DEF select_amends
<1>15. ASSUME NEW f \in Removal, NEW a \in Amend, erase_amend(f, a) PROVE OwnerInv'
  BY <1>15 DEF erase_amend
<1>16. ASSUME NEW f \in Removal, erase_amend_message(f) PROVE OwnerInv'
  BY <1>16 DEF erase_amend_message
<1>17. ASSUME NEW f \in Removal, delete_post(f) PROVE OwnerInv'
  BY <1>17 DEF delete_post
<1>18. ASSUME NEW f \in Removal, delete_post_message(f) PROVE OwnerInv'
  BY <1>18 DEF delete_post_message
<1>19. ASSUME NEW m \in Trusted, insert_anchored(m) PROVE OwnerInv'
  BY <1>19 DEF insert_anchored
<1>20. CASE backfill_insert
  BY <1>20 DEF backfill_insert
<1>21. CASE backfill_latest
  BY <1>21 DEF backfill_latest, AmendsOf
<1>22. CASE UNCHANGED postVars
  BY <1>22 DEF postVars
<1>. QED
  BY <1>1, <1>2, <1>3, <1>4, <1>5, <1>6, <1>7, <1>8, <1>9, <1>10, <1>11,
     <1>12, <1>13, <1>14, <1>15, <1>16, <1>17, <1>18, <1>19, <1>20, <1>21, <1>22
     DEF PostsNext, PostTask, AmendTask, RemovalTask

LEMMA GrantInit == PostsInit => GrantInv
BY PostsAssumption DEF PostsInit, GrantInv, SecurityOf, Item

\* What the permission check found in force is in ever, and stays there.
LEMMA GrantNext == TypeInv /\ GrantInv /\ [PostsNext]_postVars => GrantInv'
<1> SUFFICES ASSUME TypeInv, GrantInv, [PostsNext]_postVars PROVE GrantInv'
  OBVIOUS
<1> USE PostsAssumption DEF TypeInv, PostsTypeOK, StepsFit, TargetIsMarked, Steps, Item,
       GrantInv, HadGrant,
       tables, postLocals, counts, history, Advance, End
<1>1. CASE process_posts
  BY <1>1 DEF process_posts, FirstStep, NeedsGrant
<1>2. ASSUME NEW m \in Item, post_task_fails(m) PROVE GrantInv'
  BY <1>2 DEF post_task_fails
<1>3. ASSUME NEW m \in Item, check_permissions(m) PROVE GrantInv'
  <2>1. m \in Grant \/ m \in Post \cup Amend
    BY <1>3 DEF check_permissions
  <2>2. CASE m \in Grant
    <3>1. \A n \in Post \cup Amend : step'[n] = step[n]
      BY <1>3, <2>2 DEF check_permissions
    <3>. QED
      BY <1>3, <3>1 DEF check_permissions
  <2>3. CASE m \in Post \cup Amend
    <3>1. ASSUME step'[m] \in {"owner", "insert"}, Delegated(m) PROVE HadGrant(m)
      <4>1. PICK auth \in SecurityOf(Attr[m].address, grants) : Covers(auth, Attr[m].sender, Checked(m))
        BY <1>3, <2>3, <3>1 DEF check_permissions, check_delegated_authorization, Delegated
      <4>2. auth \in ever[Attr[m].address]
        BY <2>3, <4>1 DEF Envelope
      <4>. QED
        BY <4>1, <4>2 DEF Checked
    <3>2. \A n \in (Post \cup Amend) \ {m} : step'[n] = step[n]
      BY <1>3 DEF check_permissions
    <3>. QED
      BY <1>3, <3>1, <3>2 DEF check_permissions
  <2>. QED
    BY <2>1, <2>2, <2>3
<1>4. ASSUME NEW m \in Item, insert_post(m) PROVE GrantInv'
  BY <1>4 DEF insert_post
<1>5. ASSUME NEW m \in Item, store_post(m) PROVE GrantInv'
  BY <1>5 DEF store_post
<1>6. ASSUME NEW a \in Amend, validate_amend(a) PROVE GrantInv'
  BY <1>6 DEF validate_amend, Delegated
<1>7. ASSUME NEW a \in Amend, lookup_original(a) PROVE GrantInv'
  BY <1>7 DEF lookup_original
<1>8. ASSUME NEW a \in Amend, check_amend_owner(a) PROVE GrantInv'
  BY <1>8 DEF check_amend_owner
<1>9. ASSUME NEW a \in Amend, update_latest_amend(a) PROVE GrantInv'
  BY <1>9 DEF update_latest_amend
<1>10. ASSUME NEW g \in Grant, start_security(g) PROVE GrantInv'
  BY <1>10 DEF start_security, NeedsGrant, Delegated
<1>11. ASSUME NEW g \in Grant, merge_security(g) PROVE GrantInv'
  <2>1. \A o \in Address : ever[o] \subseteq ever'[o]
    BY <1>11 DEF merge_security
  <2>2. ASSUME NEW o \in Address \ {Attr[g].address}
        PROVE  SecurityOf(o, grants') \subseteq SecurityOf(o, grants)
    <3>1. grants' = grants \cup {g}
      BY <1>11 DEF merge_security
    <3> SUFFICES ASSUME NEW auth \in SecurityOf(o, grants') PROVE auth \in SecurityOf(o, grants)
      OBVIOUS
    <3>2. PICK h \in grants' : /\ Attr[h].address = o /\ auth \in Authorizations[h]
                              /\ \A i \in grants' : Attr[i].address = o => Stamp[i] <= Stamp[h]
      BY DEF SecurityOf
    <3>. QED
      BY <3>1, <3>2 DEF SecurityOf
  <2>3. Attr[g].address \in Address
    BY DEF Envelope
  <2>4. \A o \in Address : SecurityOf(o, grants') \subseteq ever'[o]
    <3>1. SecurityOf(Attr[g].address, grants') \subseteq ever'[Attr[g].address]
      BY <1>11, <2>3 DEF merge_security
    <3>. QED
      BY <2>1, <2>2, <3>1
  <2>5. \A m \in Post \cup Amend : Attr[m].address \in Address /\ step'[m] = step[m]
    BY <1>11 DEF merge_security, Envelope
  <2>6. \A m \in Post \cup Amend : HadGrant(m) => HadGrant(m)'
    BY <2>1, <2>5
  <2>. QED
    BY <1>11, <2>4, <2>5, <2>6 DEF merge_security
<1>12. ASSUME NEW f \in Removal, validate_removal(f) PROVE GrantInv'
  BY <1>12 DEF validate_removal
<1>13. ASSUME NEW f \in Removal, mark_removed(f) PROVE GrantInv'
  BY <1>13 DEF mark_removed
<1>14. ASSUME NEW f \in Removal, select_amends(f) PROVE GrantInv'
  BY <1>14 DEF select_amends
<1>15. ASSUME NEW f \in Removal, NEW a \in Amend, erase_amend(f, a) PROVE GrantInv'
  BY <1>15 DEF erase_amend
<1>16. ASSUME NEW f \in Removal, erase_amend_message(f) PROVE GrantInv'
  BY <1>16 DEF erase_amend_message
<1>17. ASSUME NEW f \in Removal, delete_post(f) PROVE GrantInv'
  BY <1>17 DEF delete_post
<1>18. ASSUME NEW f \in Removal, delete_post_message(f) PROVE GrantInv'
  BY <1>18 DEF delete_post_message
<1>19. ASSUME NEW m \in Trusted, insert_anchored(m) PROVE GrantInv'
  BY <1>19 DEF insert_anchored
<1>20. CASE backfill_insert
  BY <1>20 DEF backfill_insert
<1>21. CASE backfill_latest
  BY <1>21 DEF backfill_latest, AmendsOf
<1>22. CASE UNCHANGED postVars
  BY <1>22 DEF postVars
<1>. QED
  BY <1>1, <1>2, <1>3, <1>4, <1>5, <1>6, <1>7, <1>8, <1>9, <1>10, <1>11,
     <1>12, <1>13, <1>14, <1>15, <1>16, <1>17, <1>18, <1>19, <1>20, <1>21, <1>22
     DEF PostsNext, PostTask, AmendTask, RemovalTask

LEMMA ForeignInit == PostsInit => ForeignInv
BY DEF PostsInit, ForeignInv, Unchecked, Foreign, Item

\* Of a reserved list only unchecked versions are in force, and none covers another.
LEMMA ForeignNext == TypeInv /\ ForeignInv /\ [PostsNext]_postVars => ForeignInv'
<1> SUFFICES ASSUME TypeInv, ForeignInv, [PostsNext]_postVars PROVE ForeignInv'
  OBVIOUS
<1> USE PostsAssumption DEF TypeInv, PostsTypeOK, StepsFit, TargetIsMarked, Steps, Item,
       ForeignInv,
       tables, postLocals, counts, history, Advance, End
<1>1. CASE process_posts
  <2>1. \A h \in Grant : step'[h] # "merge"
    BY <1>1 DEF process_posts, FirstStep, NeedsGrant
  <2>. QED
    BY <1>1, <2>1 DEF process_posts, Foreign
<1>2. ASSUME NEW m \in Item, post_task_fails(m) PROVE ForeignInv'
  BY <1>2 DEF post_task_fails
<1>3. ASSUME NEW m \in Item, check_permissions(m) PROVE ForeignInv'
  <2>1. CASE m \notin Grant
    <3>1. \A h \in Grant : step'[h] = step[h]
      BY <1>3, <2>1 DEF check_permissions
    <3>. QED
      BY <1>3, <3>1 DEF check_permissions, Foreign
  <2>2. CASE m \in Grant
    <3> SUFFICES ASSUME NEW o \in Address, Reserved(o), m \in Foreign(o) PROVE step'[m] # "merge"
      BY <1>3, <2>2 DEF check_permissions, Foreign, Reserved
    <3>1. Delegated(m) /\ Attr[m].address = o /\ Checked(m) = Attr[m]
      BY <2>2 DEF Foreign, Unchecked, NeedsGrant, Checked
    <3>2. \A auth \in SecurityOf(o, grants) : ~ Covers(auth, Attr[m].sender, Attr[m])
      BY DEF SecurityOf, Reserved, Unchecked, Foreign
    <3>3. ~ check_delegated_authorization(SecurityOf(o, grants), Attr[m].sender, o, Attr[m])
      BY <3>1, <3>2 DEF check_delegated_authorization, Delegated
    <3>. QED
      BY <1>3, <3>1, <3>3 DEF check_permissions
  <2>. QED
    BY <2>1, <2>2
<1>4. ASSUME NEW m \in Item, insert_post(m) PROVE ForeignInv'
  BY <1>4 DEF insert_post
<1>5. ASSUME NEW m \in Item, store_post(m) PROVE ForeignInv'
  BY <1>5 DEF store_post
<1>6. ASSUME NEW a \in Amend, validate_amend(a) PROVE ForeignInv'
  <2>1. \A h \in Grant : step'[h] = step[h]
    BY <1>6 DEF validate_amend
  <2>2. UNCHANGED grants
    BY <1>6 DEF validate_amend
  <2>. QED
    BY <2>1, <2>2 DEF Foreign
<1>7. ASSUME NEW a \in Amend, lookup_original(a) PROVE ForeignInv'
  <2>1. \A h \in Grant : step'[h] = step[h]
    BY <1>7 DEF lookup_original
  <2>2. UNCHANGED grants
    BY <1>7 DEF lookup_original
  <2>. QED
    BY <2>1, <2>2 DEF Foreign
<1>8. ASSUME NEW a \in Amend, check_amend_owner(a) PROVE ForeignInv'
  <2>1. \A h \in Grant : step'[h] = step[h]
    BY <1>8 DEF check_amend_owner
  <2>2. UNCHANGED grants
    BY <1>8 DEF check_amend_owner
  <2>. QED
    BY <2>1, <2>2 DEF Foreign
<1>9. ASSUME NEW a \in Amend, update_latest_amend(a) PROVE ForeignInv'
  BY <1>9 DEF update_latest_amend
<1>10. ASSUME NEW g \in Grant, start_security(g) PROVE ForeignInv'
  <2>1. \A o \in Address : g \in Foreign(o) => NeedsGrant(g)
    BY DEF Foreign, Unchecked
  <2>2. \A h \in Grant : step'[h] = "merge" => step[h] = "merge" \/ (h = g /\ ~ NeedsGrant(g))
    BY <1>10 DEF start_security, NeedsGrant, Delegated
  <2>. QED
    BY <1>10, <2>1, <2>2 DEF start_security, Foreign
<1>11. ASSUME NEW g \in Grant, merge_security(g) PROVE ForeignInv'
  BY <1>11 DEF merge_security
<1>12. ASSUME NEW f \in Removal, validate_removal(f) PROVE ForeignInv'
  <2>1. \A h \in Grant : step'[h] = step[h]
    BY <1>12 DEF validate_removal
  <2>2. UNCHANGED grants
    BY <1>12 DEF validate_removal
  <2>. QED
    BY <2>1, <2>2 DEF Foreign
<1>13. ASSUME NEW f \in Removal, mark_removed(f) PROVE ForeignInv'
  BY <1>13 DEF mark_removed
<1>14. ASSUME NEW f \in Removal, select_amends(f) PROVE ForeignInv'
  BY <1>14 DEF select_amends
<1>15. ASSUME NEW f \in Removal, NEW a \in Amend, erase_amend(f, a) PROVE ForeignInv'
  BY <1>15 DEF erase_amend
<1>16. ASSUME NEW f \in Removal, erase_amend_message(f) PROVE ForeignInv'
  BY <1>16 DEF erase_amend_message
<1>17. ASSUME NEW f \in Removal, delete_post(f) PROVE ForeignInv'
  BY <1>17 DEF delete_post
<1>18. ASSUME NEW f \in Removal, delete_post_message(f) PROVE ForeignInv'
  BY <1>18 DEF delete_post_message
<1>19. ASSUME NEW m \in Trusted, insert_anchored(m) PROVE ForeignInv'
  BY <1>19 DEF insert_anchored
<1>20. CASE backfill_insert
  BY <1>20 DEF backfill_insert
<1>21. CASE backfill_latest
  BY <1>21 DEF backfill_latest, AmendsOf
<1>22. CASE UNCHANGED postVars
  BY <1>22 DEF postVars
<1>. QED
  BY <1>1, <1>2, <1>3, <1>4, <1>5, <1>6, <1>7, <1>8, <1>9, <1>10, <1>11,
     <1>12, <1>13, <1>14, <1>15, <1>16, <1>17, <1>18, <1>19, <1>20, <1>21, <1>22
     DEF PostsNext, PostTask, AmendTask, RemovalTask

LEMMA ThreadInit == PostsInit => ThreadInv
BY PostsAssumption DEF PostsInit, ThreadInv, ErasingInv, FinishedInv, Erasing, Item

\* Nothing of a thread that is being erased, or was, is written again.
LEMMA ThreadNext == TypeInv /\ ThreadInv /\ [PostsNext]_postVars => ThreadInv'
<1> SUFFICES ASSUME TypeInv, ThreadInv, [PostsNext]_postVars PROVE ThreadInv'
  OBVIOUS
<1> USE PostsAssumption DEF TypeInv, PostsTypeOK, StepsFit, TargetIsMarked, Steps, Item,
       ThreadInv, ErasingInv, FinishedInv, Erasing, Spared, AmendsGone, TargetGone,
       tables, postLocals, counts, history, Advance, End
<1>1. CASE process_posts
  BY <1>1 DEF process_posts, FirstStep, NeedsGrant
<1>2. ASSUME NEW m \in Item, post_task_fails(m) PROVE ThreadInv'
  BY <1>2 DEF post_task_fails
<1>3. ASSUME NEW m \in Item, check_permissions(m) PROVE ThreadInv'
  <2>1. step[m] = "permit"
    BY <1>3 DEF check_permissions
  <2>2. PICK to \in {"owner", "insert", "merge", "out"} : step' = [step EXCEPT ![m] = to]
    BY <1>3 DEF check_permissions
  <2>3. UNCHANGED <<tables, postLocals, counts, history>>
    BY <1>3 DEF check_permissions
  <2>. QED
    BY <2>1, <2>2, <2>3
<1>4. ASSUME NEW m \in Item, insert_post(m) PROVE ThreadInv'
  BY <1>4 DEF insert_post
<1>5. ASSUME NEW m \in Item, store_post(m) PROVE ThreadInv'
  BY <1>5 DEF store_post
<1>6. ASSUME NEW a \in Amend, validate_amend(a) PROVE ThreadInv'
  <2>1. step[a] = "validate"
    BY <1>6 DEF validate_amend
  <2>2. UNCHANGED <<tables, postLocals, counts, history>>
    BY <1>6 DEF validate_amend
  <2>3. CASE Ref[a] \in posts \ Amend
    <3>1. PICK to \in {"insert", "lookup", "owner"} : step' = [step EXCEPT ![a] = to]
      BY <1>6, <2>3 DEF validate_amend
    <3>. QED
      BY <2>1, <2>2, <2>3, <3>1
  <2>4. CASE Ref[a] \notin posts \ Amend
    <3>1. step' = [step EXCEPT ![a] = "out"]
      BY <1>6, <2>4 DEF validate_amend
    <3>. QED
      BY <2>1, <2>2, <3>1
  <2>. QED
    BY <2>3, <2>4
<1>7. ASSUME NEW a \in Amend, lookup_original(a) PROVE ThreadInv'
  <2>1. step[a] = "lookup"
    BY <1>7 DEF lookup_original
  <2>2. PICK to \in {"permit", "out"} : step' = [step EXCEPT ![a] = to]
    BY <1>7 DEF lookup_original
  <2>3. UNCHANGED <<tables, cascade, erasing, counts, history>>
    BY <1>7 DEF lookup_original
  <2>. QED
    BY <2>1, <2>2, <2>3
<1>8. ASSUME NEW a \in Amend, check_amend_owner(a) PROVE ThreadInv'
  <2>1. step[a] = "owner"
    BY <1>8 DEF check_amend_owner
  <2>2. PICK to \in {"insert", "out"} : step' = [step EXCEPT ![a] = to]
    BY <1>8 DEF check_amend_owner
  <2>3. UNCHANGED <<tables, cascade, erasing, counts, history>>
    BY <1>8 DEF check_amend_owner
  <2>. QED
    BY <2>1, <2>2, <2>3
<1>9. ASSUME NEW a \in Amend, update_latest_amend(a) PROVE ThreadInv'
  BY <1>9 DEF update_latest_amend
<1>10. ASSUME NEW g \in Grant, start_security(g) PROVE ThreadInv'
  BY <1>10 DEF start_security, NeedsGrant, Delegated
<1>11. ASSUME NEW g \in Grant, merge_security(g) PROVE ThreadInv'
  BY <1>11 DEF merge_security
<1>12. ASSUME NEW f \in Removal, validate_removal(f) PROVE ThreadInv'
  <2>1. step[f] = "validate"
    BY <1>12 DEF validate_removal
  <2>2. PICK to \in {"mark", "out"} : step' = [step EXCEPT ![f] = to]
    BY <1>12 DEF validate_removal
  <2>3. UNCHANGED <<tables, postLocals, counts, history>>
    BY <1>12 DEF validate_removal
  <2>4. CASE to = "mark"
    <3>1. /\ step'[f] = "mark" /\ \A m \in Item \ {f} : step'[m] = step[m]
          /\ f \in Item /\ f \notin Amend
      BY <2>2, <2>4
    <3>2. ASSUME NEW g \in Removal PROVE ErasingInv(g)'
      <4>1. CASE g = f
        BY <2>1, <2>3, <3>1, <4>1
      <4>2. CASE g # f
        <5>1. step'[g] = step[g] /\ \A m \in Item : step'[m] # "out" => step[m] # "out"
          BY <2>1, <3>1, <4>2
        <5> QED  BY <2>3, <4>2, <5>1
      <4> QED  BY <4>1, <4>2
    <3>3. ASSUME NEW g \in Removal PROVE FinishedInv(g)'
      <4>1. Target[g] \in Item /\ Target[g] # f
        OBVIOUS
      <4>2. f \notin finished
        <5>1. Target[f] \notin forgotten
          BY <1>12, <2>4, <2>2, <3>1 DEF validate_removal
        <5> QED  BY <5>1
      <4>3. g \in finished' => g \in finished /\ g # f
        BY <2>3, <4>2
      <4>4. UNCHANGED <<posts, messages, forgotten, beside, refilled>> /\ step'[Target[g]] = step[Target[g]]
        BY <2>3, <3>1, <4>1
      <4>5. \A m \in Amend : step'[m] = step[m]
        BY <3>1
      <4> QED  BY <3>1, <4>3, <4>4, <4>5
    <3> QED  BY <3>2, <3>3
  <2>5. CASE to = "out"
    BY <2>1, <2>2, <2>3, <2>5
  <2>. QED
    BY <2>2, <2>4, <2>5
<1>13. ASSUME NEW f \in Removal, mark_removed(f) PROVE ThreadInv'
  BY <1>13 DEF mark_removed
<1>14. ASSUME NEW f \in Removal, select_amends(f) PROVE ThreadInv'
  BY <1>14 DEF select_amends
<1>15. ASSUME NEW f \in Removal, NEW a \in Amend, erase_amend(f, a) PROVE ThreadInv'
  BY <1>15 DEF erase_amend
<1>16. ASSUME NEW f \in Removal, erase_amend_message(f) PROVE ThreadInv'
  BY <1>16 DEF erase_amend_message
<1>17. ASSUME NEW f \in Removal, delete_post(f) PROVE ThreadInv'
  BY <1>17 DEF delete_post
<1>18. ASSUME NEW f \in Removal, delete_post_message(f) PROVE ThreadInv'
  BY <1>18 DEF delete_post_message
<1>19. ASSUME NEW m \in Trusted, insert_anchored(m) PROVE ThreadInv'
  BY <1>19 DEF insert_anchored
<1>20. CASE backfill_insert
  BY <1>20 DEF backfill_insert
<1>21. CASE backfill_latest
  BY <1>21 DEF backfill_latest, AmendsOf
<1>22. CASE UNCHANGED postVars
  BY <1>22 DEF postVars
<1> HIDE DEF TypeInv, PostsTypeOK, StepsFit, TargetIsMarked, Steps, ThreadInv, ErasingInv,
       FinishedInv, Erasing, Spared, AmendsGone, TargetGone, tables, postLocals, counts, history,
       Advance, End
<1>. QED
  BY <1>1, <1>2, <1>3, <1>4, <1>5, <1>6, <1>7, <1>8, <1>9, <1>10, <1>11,
     <1>12, <1>13, <1>14, <1>15, <1>16, <1>17, <1>18, <1>19, <1>20, <1>21, <1>22
     DEF PostsNext, PostTask, AmendTask, RemovalTask

\* Whoever wrote a post, an amend or a list of authorizations had the right to, unless chain
\* sync or the backfill, which are believed, brought it: though handlers check it in several
\* reads, none of them locked, while FORGETs, updates of the lists and restarts go on beside.
THEOREM WritersKeepToTheirRights == PostsSpec => []WritersHadTheRight
<1>1. TypeInv /\ OwnerInv => AmendOfOwner
  BY DEF TypeInv, PostsTypeOK, OwnerInv, OfOwner, AmendOfOwner
<1>2. TypeInv /\ GrantInv => DelegateHadGrant
  BY DEF TypeInv, PostsTypeOK, GrantInv, HadGrant, DelegateHadGrant
<1>3. ForeignInv => OnlyOwnerGrants
  BY DEF ForeignInv, Unchecked, Foreign, Reserved, OnlyOwnerGrants
<1>4. TypeInv /\ OwnerInv /\ GrantInv /\ ForeignInv => WritersHadTheRight
  BY <1>1, <1>2, <1>3 DEF WritersHadTheRight
<1>. QED
  BY <1>4, TypeInit, TypeNext, OwnerInit, OwnerNext, GrantInit, GrantNext, ForeignInit,
     ForeignNext, PTL DEF PostsSpec

\* After the FORGET of a post its thread is gone, and stays gone whatever comes later, but
\* for what ran beside the FORGET or was restored by the backfill.
THEOREM ThreadsStayForgotten == PostsSpec => []ForgottenThreadIsGone
<1>1. TypeInv /\ ThreadInv => ForgottenThreadIsGone
  BY PostsAssumption DEF TypeInv, PostsTypeOK, ThreadInv, FinishedInv, Spared, TargetGone,
     AmendsGone, ForgottenThreadIsGone
<1>. QED
  BY <1>1, TypeInit, TypeNext, ThreadInit, ThreadNext, PTL DEF PostsSpec

(***************************************************************************)
(* Pages as sequences                                                      *)
(***************************************************************************)

\* The unique order of a list: the key, then the row.
RowBefore(q, r) == KeyBefore(key[q], key[r]) \/ (key[q] = key[r] /\ q < r)

\* The rows of S that come before r.
Behind(S, r) == {q \in S : RowBefore(q, r)}

Keyed == key \in [Row -> 1..MaxKey] /\ asc \in BOOLEAN

\* RowBefore is a strict total order.
LEMMA RowsAreOrdered ==
    ASSUME Keyed
    PROVE  \A q, r, t \in Row :
              /\ ~ RowBefore(q, q)
              /\ RowBefore(q, r) /\ RowBefore(r, t) => RowBefore(q, t)
              /\ q # r => RowBefore(q, r) \/ RowBefore(r, q)
BY ListingAssumption DEF Keyed, RowBefore, KeyBefore

\* The rows of a table are finitely many, and so are those before one.
LEMMA RowsAreFinite ==
    ASSUME NEW S \in SUBSET Row
    PROVE  /\ IsFiniteSet(S) /\ Cardinality(S) \in Nat /\ Cardinality(S) <= Cardinality(Row)
           /\ Cardinality(Row) \in Nat
           /\ \A T \in SUBSET S : IsFiniteSet(T) /\ Cardinality(T) \in Nat
                                  /\ Cardinality(T) <= Cardinality(S)
<1>1. IsFiniteSet(S) /\ Cardinality(S) <= Cardinality(Row)
  BY FS_Subset, ListingAssumption
<1>2. ASSUME NEW T \in SUBSET S
      PROVE  IsFiniteSet(T) /\ Cardinality(T) \in Nat /\ Cardinality(T) <= Cardinality(S)
  BY <1>1, FS_Subset, FS_CardinalityType
<1> QED  BY <1>1, <1>2, FS_CardinalityType, ListingAssumption

\* What a query gives is a sequence of all the rows, each of them once.
LEMMA ResultsAreAll ==
    ASSUME NEW S \in SUBSET Row, NEW s \in Results(S)
    PROVE  /\ s \in Seq(S) /\ Len(s) = Cardinality(S) /\ DOMAIN s = 1..Cardinality(S)
           /\ \A i, j \in 1..Len(s) : s[i] = s[j] => i = j
           /\ \A r \in S : \E i \in 1..Len(s) : s[i] = r
<1> DEFINE n == Cardinality(S)
<1>1. n \in Nat /\ IsFiniteSet(S)
  BY RowsAreFinite
<1>2. s \in [1..n -> S] /\ \A i, j \in 1..n : i < j => s[i] # s[j]
  BY DEF Results
<1> HIDE DEF n
<1>3. s \in Seq(S) /\ Len(s) = n /\ DOMAIN s = 1..n
  BY <1>1, <1>2
<1>4. \A i, j \in 1..n : s[i] = s[j] => i = j
  BY <1>1, <1>2
<1>5. s \in Injection(1..n, S)
  BY <1>2, <1>4 DEF Injection, IsInjective
<1>6. Cardinality(1..n) = n
  BY <1>1, FS_Interval
<1>7. s \in Surjection(1..n, S)
  BY <1>1, <1>5, <1>6, FS_Injection DEF n
<1>8. \A r \in S : \E i \in 1..n : s[i] = r
  BY <1>7 DEF Surjection
<1> QED  BY <1>3, <1>4, <1>8 DEF n

\* With a unique order, a row is at the place that follows the rows before it.
LEMMA ResultsAreSorted ==
    ASSUME Keyed, list.order = "total", NEW S \in SUBSET Row, NEW s \in Results(S)
    PROVE  /\ \A i, j \in 1..Len(s) : i < j => RowBefore(s[i], s[j])
           /\ \A i \in 1..Len(s) : Cardinality(Behind(S, s[i])) = i - 1
<1>1. /\ s \in Seq(S) /\ Len(s) = Cardinality(S) /\ DOMAIN s = 1..Len(s) /\ Len(s) \in Nat
      /\ \A i, j \in 1..Len(s) : s[i] = s[j] => i = j
      /\ \A r \in S : \E i \in 1..Len(s) : s[i] = r
      /\ \A i \in 1..Len(s) : s[i] \in S /\ s[i] \in Row
  BY ResultsAreAll
<1>2. ASSUME NEW i \in 1..Len(s), NEW j \in 1..Len(s), i < j
      PROVE  RowBefore(s[i], s[j])
  <2>1. /\ ~ KeyBefore(key[s[j]], key[s[i]])
        /\ key[s[i]] = key[s[j]] => s[i] < s[j]
    BY <1>1, <1>2 DEF Results
  <2>2. s[i] \in Row /\ s[j] \in Row
    BY <1>1
  <2> QED  BY <2>1, <2>2 DEF Keyed, RowBefore, KeyBefore
<1>3. ASSUME NEW i \in 1..Len(s)
      PROVE  Cardinality(Behind(S, s[i])) = i - 1
  <2> DEFINE B == Behind(S, s[i])
             f == [j \in 1..(i - 1) |-> s[j]]
  <2>0. Behind(S, s[i]) = B
    OBVIOUS
  <2>1. \A j \in 1..(i - 1) : j \in 1..Len(s) /\ j < i
    BY <1>1
  <2>2. \A j \in 1..(i - 1) : s[j] \in B
    BY <1>1, <1>2, <2>1 DEF Behind
  <2>3. \A q \in B : \E j \in 1..(i - 1) : s[j] = q
    <3> SUFFICES ASSUME NEW q \in S, RowBefore(q, s[i]) PROVE \E j \in 1..(i - 1) : s[j] = q
      BY DEF Behind
    <3>1. PICK j \in 1..Len(s) : s[j] = q
      BY <1>1
    <3>2. ~ (i < j) /\ i # j
      BY <1>1, <1>2, <3>1, RowsAreOrdered
    <3> QED  BY <1>1, <3>1, <3>2
  <2> HIDE DEF B
  <2>4. f \in [1..(i - 1) -> B]
    BY <2>2
  <2>5. f \in Bijection(1..(i - 1), B)
    BY <1>1, <2>1, <2>3, <2>4 DEF Bijection, Injection, Surjection, IsInjective
  <2> HIDE DEF f
  <2>6. ExistsBijection(1..(i - 1), B)
    BY <2>5 DEF ExistsBijection
  <2>7. i - 1 \in Nat
    BY <1>1
  <2> QED  BY <2>0, <2>6, <2>7, FS_CountingElements
<1> QED  BY <1>2, <1>3

\* A page is a part of what the query gives.
LEMMA SliceIs ==
    ASSUME NEW S, NEW s \in Seq(S), NEW offset \in Nat, NEW limit \in Nat
    PROVE  LET t == Slice(s, offset, limit)
           IN  /\ t \in Seq(S)
               /\ Len(t) = IF offset + limit < Len(s) THEN limit
                           ELSE IF offset < Len(s) THEN Len(s) - offset ELSE 0
               /\ \A i \in 1..Len(t) : t[i] = s[offset + i]
<1> DEFINE m == offset + 1
           n == IF offset + limit < Len(s) THEN offset + limit ELSE Len(s)
<1>1. m \in Int /\ n \in Int /\ \A i \in m..n : s[i] \in S
  OBVIOUS
<1>2. Slice(s, offset, limit) = SubSeq(s, m, n)
  BY DEF Slice
<1>3. Len(s) \in Nat
  OBVIOUS
<1> HIDE DEF m, n
<1>4. /\ SubSeq(s, m, n) \in Seq(S)
      /\ Len(SubSeq(s, m, n)) = IF m <= n THEN n - m + 1 ELSE 0
      /\ \A i \in 1..(n - m + 1) : SubSeq(s, m, n)[i] = s[m + i - 1]
  BY <1>1, SubSeqProperties
<1>5. \A i \in 1..Len(SubSeq(s, m, n)) : i \in 1..(n - m + 1) /\ m + i - 1 = offset + i
  BY <1>1, <1>4 DEF m
<1> QED  BY <1>2, <1>3, <1>4, <1>5 DEF m, n

\* The first page of what a query gives.
LEMMA FirstPage ==
    ASSUME NEW S, NEW s \in Seq(S), NEW limit \in Nat
    PROVE  LET t == Slice(s, 0, limit)
           IN  /\ t \in Seq(S)
               /\ Len(t) = IF limit < Len(s) THEN limit ELSE Len(s)
               /\ \A i \in 1..Len(t) : t[i] = s[i]
<1>0. PICK z \in Nat : z = 0
  OBVIOUS
<1> DEFINE t == Slice(s, z, limit)
<1>1. /\ t \in Seq(S)
      /\ Len(t) = IF z + limit < Len(s) THEN limit ELSE IF z < Len(s) THEN Len(s) - z ELSE 0
      /\ \A i \in 1..Len(t) : t[i] = s[z + i]
  BY SliceIs
<1> HIDE DEF t
<1>2. Len(s) \in Nat /\ Len(t) \in Nat
  BY <1>1
<1>3. Len(t) = IF limit < Len(s) THEN limit ELSE Len(s)
  BY <1>0, <1>1, <1>2
<1>4. \A i \in 1..Len(t) : z + i = i
  BY <1>0, <1>2
<1>5. t = Slice(s, 0, limit)
  BY <1>0 DEF t
<1> QED  BY <1>1, <1>3, <1>4, <1>5

(***************************************************************************)
(* The lists                                                               *)
(***************************************************************************)

\* What the handlers have in common: a list with a unique order has no empty pages, the
\* COUNT is spared where pagination=0 means all rows, and with cursors rows do not move.
LEMMA ListsHaveInCommon ==
    ASSUME NEW l \in Lists
    PROVE  /\ l.order = "total" => l.zero \in {"all", "cap"}
           /\ l.total = "short" => l.zero = "all"
           /\ l.total \in {"before", "after", "short", "none"}
           /\ l = list_messages_cursor => /\ l.order = "total" /\ l.total = "none"
                                          /\ l.zero = "all" /\ ~ l.moves
BY DEF Lists, List, list_messages, list_messages_cursor, list_messages_tx_time, get_message_hashes,
       get_posts, get_posts_v1, list_aggregates, get_balances, get_addresses_stats_v1,
       get_credit_balances, list_programs, list_instances, get_address_files,
       get_address_credit_history

\* The statement the client waits for is one that its list has.
ClientFits ==
    /\ client = "before" => list.total = "before"
    /\ client = "after" => list.total \in {"short", "after"}
    /\ stayed \subseteq rows
    /\ ByCursor => client \notin {"before", "after"}

ListTypeInv == ListingTypeOK /\ ClientFits

\* The limit is a number within the handler's own, and not 0 in a list with a unique order.
LEMMA PerPageIs ==
    ASSUME ListTypeInv
    PROVE  /\ PerPage \in Nat /\ PerPage <= SizeCap /\ Offset \in Nat
           /\ list.order = "total" => Unlimited \/ PerPage > 0
           /\ list.total = "short" => Unlimited \/ PerPage > 0
<1>1. /\ size \in Nat /\ SizeCap \in Nat \ {0} /\ Word \in Nat \ {0} /\ list \in Lists /\ page \in Nat
  BY ListingAssumption DEF ListTypeInv, ListingTypeOK
<1>2. PerPage \in Nat /\ PerPage <= SizeCap
  BY <1>1 DEF PerPage
<1>3. Offset \in Nat
  <2> DEFINE p == IF list.clamp /\ page = 0 THEN 1 ELSE page
             x == (p - 1) * PerPage
  <2>1. p \in Int
    BY <1>1
  <2> HIDE DEF p
  <2>2. x \in Int
    BY <1>2, <2>1
  <2> HIDE DEF x
  <2>3. x % Word \in Nat
    BY <1>1, <2>2
  <2> QED  BY <2>3 DEF Offset, x, p
<1> QED  BY <1>1, <1>2, <1>3, ListsHaveInCommon DEF PerPage, Unlimited

\* What a query gives and what a client sees of it.
LEMMA PageIs ==
    ASSUME ListTypeInv, NEW S \in SUBSET Row, NEW s \in Results(S), NEW offset \in Nat
    PROVE  /\ Slice(s, offset, PerPage) \in Seq(Row) /\ s \in Seq(Row)
           /\ DOMAIN Slice(s, offset, PerPage) = 1..Len(Slice(s, offset, PerPage))
           /\ DOMAIN s = 1..Len(s)
           /\ \A i \in DOMAIN s : s[i] \in S
           /\ \A i \in DOMAIN Slice(s, offset, PerPage) :
                 /\ Slice(s, offset, PerPage)[i] = s[offset + i]
                 /\ offset + i \in DOMAIN s
<1>1. PerPage \in Nat
  BY PerPageIs
<1>2. s \in Seq(S) /\ DOMAIN s = 1..Len(s) /\ Len(s) \in Nat
  BY ResultsAreAll
<1>3. s \in Seq(Row) /\ \A i \in DOMAIN s : s[i] \in S
  BY <1>2
<1> DEFINE t == Slice(s, offset, PerPage)
<1>4. /\ t \in Seq(Row)
      /\ Len(t) = IF offset + PerPage < Len(s) THEN PerPage
                  ELSE IF offset < Len(s) THEN Len(s) - offset ELSE 0
      /\ \A i \in 1..Len(t) : t[i] = s[offset + i]
  BY <1>1, <1>3, SliceIs
<1> HIDE DEF t
<1>5. DOMAIN t = 1..Len(t) /\ Len(t) \in Nat
  BY <1>4
<1>6. \A i \in 1..Len(t) : offset + i \in 1..Len(s)
  <2>1. Len(t) = 0 \/ offset + Len(t) <= Len(s)
    <3>1. CASE offset + PerPage < Len(s)
      BY ONLY <1>1, <1>2, <1>4, <3>1, offset \in Nat
    <3>2. CASE ~ (offset + PerPage < Len(s)) /\ offset < Len(s)
      BY ONLY <1>1, <1>2, <1>4, <3>2, offset \in Nat
    <3>3. CASE ~ (offset + PerPage < Len(s)) /\ ~ (offset < Len(s))
      BY <1>4, <3>3
    <3> QED  BY <3>1, <3>2, <3>3
  <2> QED  BY <1>2, <1>5, <2>1
<1> QED  BY <1>2, <1>3, <1>4, <1>5, <1>6 DEF t

\* A page is of rows of the table.
LEMMA DeliverIsTyped ==
    ASSUME ListTypeInv, NEW s \in Seq(Row), Deliver(s)
    PROVE  /\ shown' \in Seq(Row) /\ got' \subseteq Row /\ repeated' \in BOOLEAN
           /\ client' \in {"after", "answered"}
           /\ client' = "after" => list.total \in {"short", "after"}
BY DEF Deliver, ListTypeInv, ListingTypeOK

\* Every step keeps the types.
LEMMA ListTypeNext ==
    ASSUME ListTypeInv, [ListingNext]_listVars
    PROVE  ListTypeInv'
<1> USE DEF asked, listTable, answer, listHistory, ByCursor
<1>0. ListingTypeOK /\ ClientFits /\ list \in Lists
  BY DEF ListTypeInv, ListingTypeOK
<1>a. /\ list = list_messages_cursor => list.total = "none" /\ ~ list.moves
      /\ MaxKey \in Nat
  BY <1>0, ListsHaveInCommon, ListingAssumption
<1> USE <1>0, <1>a
<1>1. CASE begin_sweep
  BY <1>1 DEF begin_sweep, Ask, ListTypeInv, ListingTypeOK, ClientFits
<1>2. CASE count_before
  <2>1. Cardinality(rows) \in Nat
    BY RowsAreFinite DEF ListingTypeOK
  <2> QED  BY <1>2, <2>1 DEF count_before, ListTypeInv, ListingTypeOK, ClientFits
<1>3. CASE fetch_page
  <2>1. PICK s \in Results(rows) : Deliver(IF Unlimited THEN s ELSE Slice(s, Offset, PerPage))
    BY <1>3 DEF fetch_page
  <2>2. (IF Unlimited THEN s ELSE Slice(s, Offset, PerPage)) \in Seq(Row)
    BY PageIs, PerPageIs DEF ListingTypeOK
  <2>3. /\ shown' \in Seq(Row) /\ got' \subseteq Row /\ repeated' \in BOOLEAN
        /\ client' \in {"after", "answered"}
        /\ client' = "after" => list.total \in {"short", "after"}
    BY <2>1, <2>2, DeliverIsTyped
  <2> QED  BY <1>3, <2>3 DEF fetch_page, ListTypeInv, ListingTypeOK, ClientFits
<1>4. CASE fetch_after_cursor
  <2> DEFINE S == {r \in rows : and_cursor_keyset(r)}
  <2>1. PICK s \in Results(S) : /\ Deliver(IF Unlimited THEN s ELSE Slice(s, 0, PerPage))
                                /\ more' = (~ Unlimited /\ Len(s) > PerPage)
    BY <1>4 DEF fetch_after_cursor
  <2>2. S \in SUBSET Row
    BY DEF ListingTypeOK
  <2> HIDE DEF S
  <2>3. (IF Unlimited THEN s ELSE Slice(s, 0, PerPage)) \in Seq(Row)
    BY <2>2, PageIs
  <2>4. /\ shown' \in Seq(Row) /\ got' \subseteq Row /\ repeated' \in BOOLEAN
        /\ client' \in {"after", "answered"}
        /\ client' = "after" => list.total \in {"short", "after"}
    BY <2>1, <2>3, DeliverIsTyped
  <2>5. more' => shown'[PerPage] \in Row
    <3> SUFFICES ASSUME more' PROVE shown'[PerPage] \in Row
      OBVIOUS
    <3>1. ~ Unlimited /\ Len(s) > PerPage /\ shown' = Slice(s, 0, PerPage)
      BY <2>1 DEF Deliver
    <3>2. PerPage \in Nat /\ PerPage > 0
      BY <1>4, <3>1, PerPageIs, ListsHaveInCommon DEF fetch_after_cursor
    <3>3. s \in Seq(S)
      BY <2>2, ResultsAreAll
    <3>4. Len(Slice(s, 0, PerPage)) = PerPage
      <4> DEFINE t == Slice(s, 0, PerPage)
      <4>1. Len(t) = IF PerPage < Len(s) THEN PerPage ELSE Len(s)
        BY <3>2, <3>3, FirstPage
      <4>2. PerPage < Len(s)
        <5>1. Len(s) \in Nat
          BY <3>3
        <5> QED  BY ONLY <3>1, <3>2, <5>1
      <4> HIDE DEF t
      <4>3. Len(t) = PerPage
        BY ONLY <4>1, <4>2
      <4> QED  BY <4>3 DEF t
    <3> QED  BY <2>4, <3>1, <3>2, <3>4
  <2>6. cursor' \in (0..MaxKey + 1) \X (Row \cup {0})
    <3>1. more' => key[shown'[PerPage]] \in 1..MaxKey
      BY <2>5 DEF ListingTypeOK
    <3> QED  BY <1>4, <2>5, <3>1 DEF fetch_after_cursor, ListingTypeOK
  <2>7. more' \in BOOLEAN
    BY <2>1
  <2> QED  BY <1>4, <2>4, <2>6, <2>7 DEF fetch_after_cursor, ListTypeInv, ListingTypeOK, ClientFits
<1>5. CASE fetch_fails
  <2>1. << >> \in Seq(Row)
    OBVIOUS
  <2>2. /\ shown' \in Seq(Row) /\ got' \subseteq Row /\ repeated' \in BOOLEAN
        /\ client' \in {"after", "answered"}
        /\ client' = "after" => list.total \in {"short", "after"}
    BY <1>5, <2>1, DeliverIsTyped DEF fetch_fails
  <2> QED  BY <1>5, <2>2 DEF fetch_fails, ListTypeInv, ListingTypeOK, ClientFits
<1>6. CASE count_after
  <2>1. Cardinality(rows) \in Nat /\ PerPage \in Nat /\ Len(shown) \in Nat
    BY RowsAreFinite, PerPageIs DEF ListingTypeOK
  <2>2. (page - 1) * PerPage + Len(shown) \in Int
    BY <2>1 DEF ListingTypeOK
  <2>3. total' \in Int
    BY <1>6, <2>1, <2>2 DEF count_after
  <2> QED  BY <1>6, <2>3 DEF count_after, ListTypeInv, ListingTypeOK, ClientFits
<1>7. CASE next_page
  <2>1. client' \in {"before", "rows", "over"} /\ (client' = "before" => list.total = "before")
    BY <1>7 DEF next_page, Ask
  <2>2. page' \in Nat
    BY <1>7 DEF next_page, ListingTypeOK
  <2>3. ByCursor => client' # "before"
    BY <2>1
  <2> QED  BY <1>7, <2>1, <2>2, <2>3 DEF next_page, ListTypeInv, ListingTypeOK, ClientFits
<1>8. ASSUME NEW r \in Row, row_inserted(r) PROVE ListTypeInv'
  <2>1. changes' \in 0..MaxChanges
    BY <1>8, ListingAssumption DEF row_inserted, Change, ListingTypeOK
  <2> QED  BY <1>8, <2>1 DEF row_inserted, Change, ListTypeInv, ListingTypeOK, ClientFits
<1>9. ASSUME NEW r \in Row, row_deleted(r) PROVE ListTypeInv'
  <2>1. changes' \in 0..MaxChanges
    BY <1>9, ListingAssumption DEF row_deleted, Change, ListingTypeOK
  <2> QED  BY <1>9, <2>1 DEF row_deleted, Change, ListTypeInv, ListingTypeOK, ClientFits
<1>10. ASSUME NEW r \in Row, row_moved(r) PROVE ListTypeInv'
  <2>1. changes' \in 0..MaxChanges
    BY <1>10, ListingAssumption DEF row_moved, Change, ListingTypeOK
  <2> QED  BY <1>10, <2>1 DEF row_moved, Change, ListTypeInv, ListingTypeOK, ClientFits
<1>11. CASE UNCHANGED listVars
  BY <1>11 DEF listVars, ListTypeInv, ListingTypeOK, ClientFits
<1> QED
  BY <1>1, <1>2, <1>3, <1>4, <1>5, <1>6, <1>7, <1>8, <1>9, <1>10, <1>11 DEF ListingNext

(***************************************************************************)
(* The invariant                                                           *)
(***************************************************************************)

\* The last page was full, so that the client goes on.
FullPage == ~ Unlimited /\ PerPage > 0 /\ Len(shown) = PerPage

\* A row that was there all the time and was not given yet is beyond the pages so far.
Beyond(n) == \A r \in stayed \ got : Unlimited \/ Cardinality(Behind(rows, r)) >= n

Sweeping == ~ ByCursor /\ list.order = "total" /\ first = 1 /\ gone = {} /\ ~ failed

SweepInv ==
    Sweeping =>
        /\ client # "idle" => page >= 1
        /\ client \in {"before", "rows"} => Beyond((page - 1) * PerPage)
        /\ client \in {"after", "answered"} =>
              IF FullPage THEN Beyond((page - 1) * PerPage + PerPage) ELSE stayed \subseteq got
        /\ client = "over" => stayed \subseteq got

\* Past the second page the pages before were full, so that their rows were there.
OffsetInv ==
    ~ ByCursor /\ page >= 1 =>
        /\ client \in {"before", "rows", "after"} =>
              page <= 2 \/ (page - 1) * PerPage <= Cardinality(Row)
        /\ client \in {"after", "answered"} /\ FullPage =>
              (page - 1) * PerPage + PerPage <= Cardinality(Row)

\* How many rows a page has, with n before it.
Fill(n) == IF n + PerPage < Cardinality(rows) THEN PerPage
           ELSE IF n < Cardinality(rows) THEN Cardinality(rows) - n ELSE 0

TotalInv ==
    ~ changed =>
        /\ client = "rows" /\ list.total = "before" => total = Cardinality(rows)
        /\ client = "after" /\ page >= 1 => Unlimited \/ Len(shown) = Fill((page - 1) * PerPage)
        /\ client = "answered" /\ list.total # "none" /\ page >= 1
              /\ (page = 1 \/ shown # <<>>) => total = Cardinality(rows)

\* With cursors: what was given is up to the cursor, what is left is after it.
CursorInv ==
    ByCursor =>
        /\ ~ repeated
        /\ got \subseteq rows \cup gone /\ rows \cap gone = {}
        /\ client = "idle" => got = {}
        /\ client = "rows" \/ (client = "answered" /\ more) =>
              /\ \A r \in got : ~ and_cursor_keyset(r)
              /\ \A r \in stayed \ got : and_cursor_keyset(r)
        /\ (client = "answered" /\ ~ more) \/ client = "over" => failed \/ stayed \subseteq got

ListInv == ListTypeInv /\ SweepInv /\ OffsetInv /\ TotalInv /\ CursorInv

\* The claim is for tables whose rows, and pages whose rows, u32 can count.
RowsFit == Cardinality(Row) < Word /\ SizeCap < Word

\* What was asked for stays for the whole sweep.
LEMMA AskedStays ==
    ASSUME UNCHANGED asked
    PROVE  /\ PerPage' = PerPage /\ (Unlimited' <=> Unlimited) /\ (ByCursor' <=> ByCursor)
           /\ list' = list
BY DEF asked, PerPage, Unlimited, ByCursor

LEMMA NothingElseAsked == ASSUME [ListingNext]_listVars PROVE UNCHANGED asked
BY DEF ListingNext, listVars, begin_sweep, count_before, fetch_page, fetch_after_cursor, fetch_fails,
       count_after, next_page, row_inserted, row_deleted, row_moved, Change, asked

LEMMA ListInit == ListingInit => ListInv
<1> SUFFICES ASSUME ListingInit PROVE ListInv
  OBVIOUS
<1>1. ListingTypeOK
  <2>1. list \in Lists /\ asc \in BOOLEAN /\ size \in Sizes /\ rows \subseteq Row
    BY DEF ListingInit
  <2>2. key \in [Row -> 1..MaxKey] /\ changes \in 0..MaxChanges
    BY ListingAssumption DEF ListingInit
  <2>3. cursor \in (0..MaxKey + 1) \X (Row \cup {0})
    BY ListingAssumption DEF ListingInit
  <2>4. /\ client = "idle" /\ page \in Nat /\ shown \in Seq(Row) /\ more \in BOOLEAN /\ total \in Int
        /\ first \in Nat
    <3>1. client = "idle" /\ page = 1 /\ shown = <<>> /\ more = FALSE /\ total = 0 /\ first = 1
      BY DEF ListingInit
    <3>2. shown \in Seq(Row)
      BY ONLY <3>1
    <3>3. more \in BOOLEAN
      BY ONLY <3>1
    <3> QED  BY ONLY <3>1, <3>2, <3>3
  <2>5. /\ stayed \subseteq Row /\ got \subseteq Row /\ gone \subseteq Row /\ failed \in BOOLEAN
        /\ changed \in BOOLEAN /\ repeated \in BOOLEAN
    BY <2>1 DEF ListingInit
  <2> QED  BY <2>1, <2>2, <2>3, <2>4, <2>5 DEF ListingTypeOK
<1>2. ClientFits
  BY DEF ListingInit, ClientFits
<1>3. client = "idle" /\ ~ repeated /\ got = {} /\ gone = {}
  BY DEF ListingInit
<1> QED
  BY <1>1, <1>2, <1>3 DEF ListInv, ListTypeInv, SweepInv, OffsetInv, TotalInv, CursorInv

(***************************************************************************)
(* Numbered pages                                                          *)
(***************************************************************************)

\* The offset of a page is that of the rows of the pages before it: it does not wrap.
LEMMA OffsetIs ==
    ASSUME RowsFit, ListTypeInv, page >= 1,
           page <= 2 \/ (page - 1) * PerPage <= Cardinality(Row)
    PROVE  /\ (page - 1) * PerPage \in Nat
           /\ Unlimited \/ Offset = (page - 1) * PerPage
<1> DEFINE x == (page - 1) * PerPage
<1>1. PerPage \in Nat /\ PerPage <= SizeCap /\ page \in Nat
  BY PerPageIs DEF ListTypeInv, ListingTypeOK
<1>2. Word \in Nat \ {0} /\ SizeCap \in Nat /\ Cardinality(Row) \in Nat
  BY ListingAssumption, FS_CardinalityType
<1>3. page <= 2 => x \in {0, PerPage}
  <2>1. page = 1 => x = 0
    BY <1>1
  <2>2. page = 2 => x = PerPage
    BY <1>1
  <2> QED  BY <1>1, <2>1, <2>2
<1>4. x \in Int /\ x >= 0
  BY <1>1
<1>5. Offset = IF Unlimited THEN 0 ELSE x % Word
  BY <1>1 DEF Offset
<1>6. x <= SizeCap \/ x <= Cardinality(Row)
  BY <1>1, <1>2, <1>3
<1> HIDE DEF x
<1>7. x \in Nat /\ x < Word
  BY <1>2, <1>4, <1>6 DEF RowsFit
<1>8. x % Word = x
  BY <1>2, <1>7
<1> QED  BY <1>5, <1>7, <1>8 DEF x

\* What a page at offset n holds of the rows that have n before them, or more.
LEMMA PageFetched ==
    ASSUME ListTypeInv, NEW s \in Results(rows), NEW n \in Nat
    PROVE  LET t == Slice(s, n, PerPage)
           IN  /\ Len(t) = Fill(n)
               /\ Len(t) = PerPage /\ PerPage > 0 => n + PerPage <= Cardinality(rows)
               /\ list.order = "total" =>
                     \A r \in rows : Cardinality(Behind(rows, r)) >= n =>
                        \/ \E i \in DOMAIN t : t[i] = r
                        \/ /\ Len(t) = PerPage
                           /\ Cardinality(Behind(rows, r)) >= n + PerPage
<1> DEFINE t == Slice(s, n, PerPage)
           c == Cardinality(rows)
<1>1. rows \in SUBSET Row /\ Keyed
  BY DEF ListTypeInv, ListingTypeOK, Keyed
<1>2. s \in Seq(rows) /\ Len(s) = c /\ c \in Nat /\ PerPage \in Nat
  BY <1>1, ResultsAreAll, RowsAreFinite, PerPageIs
<1>3. /\ Len(t) = IF n + PerPage < Len(s) THEN PerPage
                  ELSE IF n < Len(s) THEN Len(s) - n ELSE 0
      /\ \A i \in 1..Len(t) : t[i] = s[n + i]
      /\ t \in Seq(rows)
  BY <1>2, SliceIs
<1>4. Len(t) = Fill(n)
  BY <1>2, <1>3 DEF Fill
<1>5. DOMAIN t = 1..Len(t) /\ Len(t) \in Nat
  BY <1>3
<1> HIDE DEF t, c
<1>6. Len(t) = PerPage /\ PerPage > 0 => n + PerPage <= c
  <2>1. CASE n + PerPage < c
    BY <1>2, <2>1
  <2>2. CASE ~ (n + PerPage < c) /\ n < c
    BY <1>2, <1>3, <2>2
  <2>3. CASE ~ (n + PerPage < c) /\ ~ (n < c)
    BY <1>2, <1>3, <2>3
  <2> QED  BY <2>1, <2>2, <2>3
<1>7. ASSUME list.order = "total", NEW r \in rows, Cardinality(Behind(rows, r)) >= n
      PROVE  \/ \E i \in DOMAIN t : t[i] = r
             \/ Len(t) = PerPage /\ Cardinality(Behind(rows, r)) >= n + PerPage
  <2>1. PICK j \in 1..Len(s) : s[j] = r
    BY <1>1, ResultsAreAll
  <2>2. Cardinality(Behind(rows, r)) = j - 1
    BY <1>1, <1>7, <2>1, ResultsAreSorted
  <2>3. j - 1 >= n /\ j <= c /\ j \in Nat
    BY <1>2, <1>7, <2>1, <2>2
  <2>4. CASE j - n <= PerPage
    <3>1. j - n \in 1..Len(t)
      <4>1. CASE n + PerPage < c
        BY <1>2, <1>3, <2>3, <2>4, <4>1
      <4>2. CASE ~ (n + PerPage < c)
        BY <1>2, <1>3, <2>3, <2>4, <4>2
      <4> QED  BY <4>1, <4>2
    <3>2. t[j - n] = s[j]
      BY <1>3, <2>3, <3>1
    <3> QED  BY <1>5, <2>1, <3>1, <3>2
  <2>5. CASE j - n > PerPage
    <3>1. n + PerPage < c /\ j - 1 >= n + PerPage
      BY <1>2, <2>3, <2>5
    <3> QED  BY <1>2, <1>3, <2>2, <3>1
  <2> QED  BY <1>2, <2>3, <2>4, <2>5
<1> QED  BY <1>4, <1>6, <1>7 DEF t, c

\* Rows that come, or move back in the order, leave no fewer before the ones that stayed.
LEMMA BehindGrows ==
    ASSUME ListTypeInv, ListTypeInv', NEW q \in Row, row_inserted(q) \/ row_moved(q),
           gone' = {}, NEW r \in stayed'
    PROVE  /\ r \in stayed
           /\ Cardinality(Behind(rows, r)) <= Cardinality(Behind(rows, r)')
<1>1. /\ r \in stayed /\ r # q /\ r \in rows /\ r \in Row /\ asc' = asc
      /\ rows \subseteq rows' /\ rows' \subseteq Row /\ rows \subseteq Row
      /\ \A x \in Row \ {q} : key'[x] = key[x]
      /\ Keyed
  <2>1. stayed \subseteq rows /\ rows \subseteq Row /\ rows' \subseteq Row /\ Keyed
    BY DEF ListTypeInv, ListingTypeOK, ClientFits, Keyed
  <2>2. CASE row_inserted(q)
    <3>1. q \notin rows /\ rows' = rows \cup {q} /\ stayed' = stayed /\ asc' = asc
      BY <2>2 DEF row_inserted, Change, asked
    <3>2. PICK k \in 1..MaxKey : key' = [key EXCEPT ![q] = k]
      BY <2>2 DEF row_inserted
    <3> QED  BY <2>1, <3>1, <3>2 DEF Keyed
  <2>3. CASE row_moved(q)
    <3>1. q \in rows /\ rows' = rows /\ stayed' = stayed \ {q} /\ asc' = asc
      BY <2>3 DEF row_moved, Change, asked
    <3>2. PICK k \in 1..MaxKey : key' = [key EXCEPT ![q] = k]
      BY <2>3 DEF row_moved
    <3> QED  BY <2>1, <3>1, <3>2 DEF Keyed
  <2> QED  BY <2>2, <2>3
<1>2. q \in rows => ~ KeyBefore(key[q], key'[q]) /\ key'[q] \in 1..MaxKey
  <2>1. key' \in [Row -> 1..MaxKey]
    BY DEF ListTypeInv, ListingTypeOK
  <2>2. ASSUME q \in rows PROVE ~ KeyBefore(key[q], key'[q])
    <3>1. row_moved(q)
      BY <2>2 DEF row_inserted
    <3>2. PICK k \in 1..MaxKey : /\ key' = [key EXCEPT ![q] = k]
                                 /\ gone' = IF KeyBefore(key[q], k) THEN gone \cup {q} ELSE gone
      BY <3>1 DEF row_moved
    <3>3. key \in [Row -> 1..MaxKey]
      BY <1>1 DEF Keyed
    <3>4. key'[q] = k
      BY <3>2, <3>3
    <3>5. ~ KeyBefore(key[q], k)
      BY <3>2
    <3> QED  BY <3>4, <3>5
  <2> QED  BY <2>1, <2>2
<1>3. ASSUME NEW x \in rows, RowBefore(x, r) PROVE RowBefore(x, r)'
  <2>1. CASE x # q
    BY <1>1, <1>3, <2>1 DEF RowBefore, KeyBefore
  <2>2. CASE x = q
    <3>1. key'[q] # key[q]
      BY <1>1, <1>3, <2>2 DEF row_inserted, row_moved, ListTypeInv, ListingTypeOK
    <3>2. key[q] \in Int /\ key'[q] \in Int /\ key[r] \in Int /\ key'[r] = key[r]
      BY <1>1, <1>2, <2>2, ListingAssumption DEF Keyed
    <3> QED  BY <1>1, <1>2, <1>3, <2>2, <3>1, <3>2 DEF RowBefore, KeyBefore, Keyed
  <2> QED  BY <2>1, <2>2
<1>4. Behind(rows, r) \subseteq Behind(rows, r)'
  BY <1>1, <1>3 DEF Behind
<1>5. Behind(rows, r)' \in SUBSET Row
  BY <1>1 DEF Behind
<1> QED  BY <1>1, <1>4, <1>5, RowsAreFinite

\* A step of the client's leaves the table as it was.
LEMMA TableStays ==
    ASSUME UNCHANGED <<asked, listTable>>
    PROVE  /\ rows' = rows /\ key' = key
           /\ \A r : Behind(rows, r)' = Behind(rows, r)
           /\ \A n : Fill(n)' = Fill(n)
<1>1. rows' = rows /\ key' = key /\ asc' = asc
  BY DEF asked, listTable
<1>2. \A r : Behind(rows, r)' = Behind(rows, r)
  BY <1>1 DEF Behind, RowBefore, KeyBefore
<1>3. \A n : Fill(n)' = Fill(n)
  BY <1>1, AskedStays DEF Fill
<1> QED  BY <1>1, <1>2, <1>3

\* Whatever rows come, the rows that were there all the time are given, page by page.
LEMMA SweepNext ==
    ASSUME RowsFit, ListTypeInv, ListTypeInv', OffsetInv, SweepInv, [ListingNext]_listVars
    PROVE  SweepInv'
<1> SUFFICES ASSUME Sweeping'
             PROVE  /\ client' # "idle" => page' >= 1
                    /\ client' \in {"before", "rows"} => Beyond((page - 1) * PerPage)'
                    /\ client' \in {"after", "answered"} =>
                          IF FullPage' THEN Beyond((page - 1) * PerPage + PerPage)'
                          ELSE stayed' \subseteq got'
                    /\ client' = "over" => stayed' \subseteq got'
  BY DEF SweepInv
<1> DEFINE Goal == /\ client' # "idle" => page' >= 1
                   /\ client' \in {"before", "rows"} => Beyond((page - 1) * PerPage)'
                   /\ client' \in {"after", "answered"} =>
                          IF FullPage' THEN Beyond((page - 1) * PerPage + PerPage)'
                          ELSE stayed' \subseteq got'
                   /\ client' = "over" => stayed' \subseteq got'
<1> SUFFICES Goal
  OBVIOUS
<1>0. /\ UNCHANGED asked /\ PerPage' = PerPage /\ (Unlimited' <=> Unlimited) /\ (ByCursor' <=> ByCursor)
      /\ list' = list /\ PerPage \in Nat /\ page \in Nat /\ page' \in Nat
      /\ ~ ByCursor /\ list.order = "total" /\ (Unlimited \/ PerPage > 0)
      /\ rows \subseteq Row /\ stayed \subseteq rows
  <2>1. UNCHANGED asked
    BY NothingElseAsked
  <2>2. page \in Nat /\ page' \in Nat /\ rows \subseteq Row /\ stayed \subseteq rows
    BY DEF ListTypeInv, ListingTypeOK, ClientFits
  <2> QED  BY <2>1, <2>2, AskedStays, PerPageIs DEF Sweeping
<1>1. CASE begin_sweep
  <2>1. client' \in {"before", "rows"} /\ page' = 1
    BY <1>1 DEF begin_sweep, Ask, Sweeping
  <2>2. (page' - 1) * PerPage' = 0
    BY <1>0, <2>1
  <2>3. \A r \in stayed' : Cardinality(Behind(rows, r)') >= 0
    <3>1. UNCHANGED <<asked, listTable>> /\ stayed' = stayed
      BY <1>1 DEF begin_sweep
    <3> SUFFICES ASSUME NEW r \in stayed' PROVE Cardinality(Behind(rows, r)') \in Nat
      OBVIOUS
    <3>2. Behind(rows, r) \subseteq rows
      BY DEF Behind
    <3> QED  BY <1>0, <3>1, <3>2, TableStays, RowsAreFinite
  <2> QED  BY <2>1, <2>2, <2>3 DEF Beyond
<1>2. CASE count_before
  <2>1. /\ UNCHANGED <<asked, listTable, page, stayed, got, first, gone, failed>>
        /\ client = "before" /\ client' = "rows"
    BY <1>2 DEF count_before, answer, listHistory
  <2>2. Sweeping
    BY <1>0, <2>1 DEF Sweeping
  <2>3. Beyond((page - 1) * PerPage) /\ page >= 1
    BY <2>1, <2>2 DEF SweepInv
  <2>4. Beyond((page - 1) * PerPage)'
    BY <1>0, <2>1, <2>3, TableStays DEF Beyond
  <2> QED  BY <2>1, <2>3, <2>4
<1>3. CASE fetch_page
  <2>1. /\ UNCHANGED <<asked, listTable, page, stayed, first, gone, failed>>
        /\ client = "rows"
    BY <1>3 DEF fetch_page, listHistory
  <2>2. PICK s \in Results(rows) : Deliver(IF Unlimited THEN s ELSE Slice(s, Offset, PerPage))
    BY <1>3 DEF fetch_page
  <2>3. page >= 1 /\ Beyond((page - 1) * PerPage)
    BY <1>0, <2>1 DEF SweepInv, Sweeping
  <2>4. client' \in {"after", "answered"}
    BY <2>2 DEF Deliver
  <2>5. CASE Unlimited
    <3>1. got' = got \cup {s[i] : i \in DOMAIN s}
      BY <2>2, <2>5 DEF Deliver
    <3>2. \A r \in rows : \E i \in 1..Len(s) : s[i] = r
      BY <1>0, ResultsAreAll
    <3>3. DOMAIN s = 1..Len(s)
      BY <1>0, ResultsAreAll
    <3> QED  BY <1>0, <2>1, <2>3, <2>4, <2>5, <3>1, <3>2, <3>3 DEF FullPage
  <2>6. CASE ~ Unlimited
    <3> DEFINE n == (page - 1) * PerPage
               t == Slice(s, n, PerPage)
    <3>1. n \in Nat /\ Offset = n
      BY <1>0, <2>1, <2>3, <2>6, OffsetIs DEF OffsetInv
    <3>2. shown' = t /\ got' = got \cup {t[i] : i \in DOMAIN t}
      BY <2>2, <2>6, <3>1 DEF Deliver
    <3> HIDE DEF n
    <3>3. \A r \in rows : Cardinality(Behind(rows, r)) >= n =>
              \/ \E i \in DOMAIN t : t[i] = r
              \/ /\ Len(t) = PerPage
                 /\ Cardinality(Behind(rows, r)) >= n + PerPage
      BY <1>0, <3>1, PageFetched
    <3> HIDE DEF t
    <3>4. \A r \in stayed \ got : Cardinality(Behind(rows, r)) >= n
      BY <2>3, <2>6 DEF Beyond, n
    <3>5. \A r \in stayed' \ got' : /\ Len(t) = PerPage
                                    /\ Cardinality(Behind(rows, r)) >= n + PerPage
      BY <1>0, <2>1, <3>2, <3>3, <3>4
    <3>6. FullPage' <=> Len(t) = PerPage
      BY <1>0, <2>6, <3>2 DEF FullPage
    <3>7. Len(t) = PerPage => Beyond((page - 1) * PerPage + PerPage)'
      BY <1>0, <2>1, <3>5, TableStays DEF Beyond, n
    <3> QED  BY <2>1, <2>3, <2>4, <3>5, <3>6, <3>7
  <2> QED  BY <2>5, <2>6
<1>4. CASE fetch_after_cursor
  BY <1>0, <1>4 DEF fetch_after_cursor
<1>5. CASE fetch_fails
  BY <1>5 DEF fetch_fails, Sweeping
<1>6. CASE count_after
  <2>1. /\ UNCHANGED <<asked, listTable, page, stayed, got, first, gone, failed, shown>>
        /\ client = "after" /\ client' = "answered"
    BY <1>6 DEF count_after, answer, listHistory
  <2>2. Sweeping
    BY <1>0, <2>1 DEF Sweeping
  <2>3. /\ page >= 1
        /\ IF FullPage THEN Beyond((page - 1) * PerPage + PerPage) ELSE stayed \subseteq got
    BY <2>1, <2>2 DEF SweepInv
  <2>4. FullPage' <=> FullPage
    BY <1>0, <2>1 DEF FullPage
  <2>5. FullPage => Beyond((page - 1) * PerPage + PerPage)'
    BY <1>0, <2>1, <2>3, TableStays DEF Beyond
  <2> QED  BY <2>1, <2>3, <2>4, <2>5
<1>7. CASE next_page
  <2>1. /\ UNCHANGED <<asked, listTable, stayed, got, first, gone, failed, shown>>
        /\ client = "answered"
    BY <1>7 DEF next_page, answer
  <2>2. Sweeping
    BY <1>0, <2>1 DEF Sweeping
  <2>3. /\ page >= 1
        /\ IF FullPage THEN Beyond((page - 1) * PerPage + PerPage) ELSE stayed \subseteq got
    BY <2>1, <2>2 DEF SweepInv
  <2>4. CASE FullPage
    <3>1. client' \in {"before", "rows"} /\ page' = page + 1
      BY <1>0, <1>7, <2>4 DEF next_page, Ask, FullPage
    <3>2. (page' - 1) * PerPage' = (page - 1) * PerPage + PerPage
      BY <1>0, <3>1
    <3>3. Beyond((page - 1) * PerPage)'
      BY <1>0, <2>1, <2>3, <2>4, <3>2, TableStays DEF Beyond
    <3> QED  BY <1>0, <3>1, <3>3
  <2>5. CASE ~ FullPage
    <3>1. client' = "over" /\ page' = page
      BY <1>0, <1>7, <2>5 DEF next_page, FullPage
    <3> QED  BY <2>1, <2>3, <2>5, <3>1
  <2> QED  BY <2>4, <2>5
<1>8. ASSUME NEW q \in Row, row_inserted(q) \/ row_moved(q) PROVE Goal
  <2>1. /\ UNCHANGED <<page, got, first, failed, shown, client>>
        /\ gone \subseteq gone' /\ stayed' \subseteq stayed /\ gone' = {}
    BY <1>8 DEF row_inserted, row_moved, Change, answer, Sweeping
  <2>2. Sweeping
    BY <1>0, <2>1 DEF Sweeping
  <2>3. FullPage' <=> FullPage
    BY <1>0, <2>1 DEF FullPage
  <2>4. ASSUME NEW n \in Nat, Beyond(n) PROVE Beyond(n)'
    <3> SUFFICES ASSUME NEW r \in stayed' \ got', ~ Unlimited'
                 PROVE  Cardinality(Behind(rows, r)') >= n
      BY DEF Beyond
    <3>1. Cardinality(Behind(rows, r)) <= Cardinality(Behind(rows, r)')
      BY <1>8, <2>1, BehindGrows
    <3>2. Cardinality(Behind(rows, r)) >= n
      BY <1>0, <2>1, <2>4 DEF Beyond
    <3>3. Cardinality(Behind(rows, r)) \in Nat /\ Cardinality(Behind(rows, r)') \in Nat
      <4>1. rows' \subseteq Row /\ Behind(rows, r)' \subseteq rows' /\ Behind(rows, r) \subseteq rows
        BY DEF Behind, ListTypeInv, ListingTypeOK
      <4> QED  BY <1>0, <4>1, RowsAreFinite
    <3> QED  BY <3>1, <3>2, <3>3
  <2>5. page >= 1 => (page - 1) * PerPage \in Nat /\ (page - 1) * PerPage + PerPage \in Nat
    BY <1>0
  <2>6. page >= 1 /\ Beyond((page - 1) * PerPage) => Beyond((page - 1) * PerPage)'
    <3> DEFINE n == (page - 1) * PerPage
    <3>1. n' = n
      BY <1>0, <2>1
    <3> HIDE DEF n
    <3>2. page >= 1 /\ Beyond(n) => Beyond(n)'
      BY <2>4, <2>5, <3>1 DEF n
    <3> QED  BY <3>2 DEF n
  <2>7. page >= 1 /\ Beyond((page - 1) * PerPage + PerPage) => Beyond((page - 1) * PerPage + PerPage)'
    <3> DEFINE n == (page - 1) * PerPage + PerPage
    <3>1. n' = n
      BY <1>0, <2>1
    <3> HIDE DEF n
    <3>2. page >= 1 /\ Beyond(n) => Beyond(n)'
      BY <2>4, <2>5, <3>1 DEF n
    <3> QED  BY <3>2 DEF n
  <2> HIDE DEF Goal
  <2>8. /\ client # "idle" => page >= 1
        /\ client \in {"before", "rows"} => Beyond((page - 1) * PerPage)
        /\ client \in {"after", "answered"} =>
              IF FullPage THEN Beyond((page - 1) * PerPage + PerPage) ELSE stayed \subseteq got
        /\ client = "over" => stayed \subseteq got
    BY <2>2 DEF SweepInv
  <2> QED  BY ONLY <2>1, <2>3, <2>6, <2>7, <2>8 DEF Goal
<1>9. ASSUME NEW r \in Row, row_deleted(r) PROVE Goal
  BY <1>9 DEF row_deleted, Sweeping
<1>10. CASE UNCHANGED listVars
  <2>1. UNCHANGED <<asked, listTable, page, stayed, got, first, gone, failed, shown, client>>
    BY <1>10 DEF listVars, answer, listHistory
  <2>2. Sweeping
    BY <1>0, <2>1 DEF Sweeping
  <2>3. FullPage' <=> FullPage
    BY <1>0, <2>1 DEF FullPage
  <2>4. /\ Beyond((page - 1) * PerPage) => Beyond((page - 1) * PerPage)'
        /\ Beyond((page - 1) * PerPage + PerPage) => Beyond((page - 1) * PerPage + PerPage)'
    BY <1>0, <2>1, TableStays DEF Beyond
  <2> QED  BY <2>1, <2>2, <2>3, <2>4 DEF SweepInv
<1> QED
  BY <1>1, <1>2, <1>3, <1>4, <1>5, <1>6, <1>7, <1>8, <1>9, <1>10 DEF ListingNext

\* The pages before one were full.
LEMMA OffsetNext ==
    ASSUME RowsFit, ListTypeInv, ListTypeInv', OffsetInv, [ListingNext]_listVars
    PROVE  OffsetInv'
<1> SUFFICES ASSUME ~ ByCursor, page' >= 1
             PROVE  /\ client' \in {"before", "rows", "after"} =>
                          page' <= 2 \/ (page' - 1) * PerPage <= Cardinality(Row)
                    /\ client' \in {"after", "answered"} /\ FullPage' =>
                          (page' - 1) * PerPage + PerPage <= Cardinality(Row)
  BY NothingElseAsked, AskedStays DEF OffsetInv
<1> DEFINE Goal == /\ client' \in {"before", "rows", "after"} =>
                          page' <= 2 \/ (page' - 1) * PerPage <= Cardinality(Row)
                   /\ client' \in {"after", "answered"} /\ FullPage' =>
                          (page' - 1) * PerPage + PerPage <= Cardinality(Row)
<1> SUFFICES Goal
  OBVIOUS
<1>0. /\ UNCHANGED asked /\ PerPage' = PerPage /\ (Unlimited' <=> Unlimited) /\ list' = list
      /\ PerPage \in Nat /\ page \in Nat /\ page' \in Nat
      /\ rows \subseteq Row /\ Cardinality(Row) \in Nat
      /\ Cardinality(rows) \in Nat /\ Cardinality(rows) <= Cardinality(Row)
      /\ shown' \in Seq(Row)
  <2>1. UNCHANGED asked
    BY NothingElseAsked
  <2>2. page \in Nat /\ page' \in Nat /\ rows \subseteq Row /\ shown' \in Seq(Row)
    BY DEF ListTypeInv, ListingTypeOK
  <2> QED  BY <2>1, <2>2, AskedStays, PerPageIs, RowsAreFinite
<1>1. CASE begin_sweep
  BY <1>1 DEF begin_sweep, Ask
<1>2. CASE count_before \/ count_after
  <2>1. /\ UNCHANGED <<page, shown>>
        /\ client \in {"before", "after"} /\ client' \in {"rows", "answered"}
        /\ client' = "answered" => client = "after"
    BY <1>2 DEF count_before, count_after, answer
  <2>2. FullPage' <=> FullPage
    BY <1>0, <2>1 DEF FullPage
  <2> QED  BY <2>1, <2>2 DEF OffsetInv
<1>3. CASE fetch_page
  <2>1. /\ UNCHANGED <<page, rows>> /\ client = "rows"
    BY <1>3 DEF fetch_page, listTable
  <2>2. PICK s \in Results(rows) : Deliver(IF Unlimited THEN s ELSE Slice(s, Offset, PerPage))
    BY <1>3 DEF fetch_page
  <2>3. page <= 2 \/ (page - 1) * PerPage <= Cardinality(Row)
    BY <2>1 DEF OffsetInv
  <2> SUFFICES ASSUME FullPage' PROVE (page - 1) * PerPage + PerPage <= Cardinality(Row)
    BY <2>1, <2>3
  <2> DEFINE n == (page - 1) * PerPage
             t == Slice(s, n, PerPage)
  <2>4. ~ Unlimited /\ PerPage > 0 /\ Len(shown') = PerPage
    BY <1>0 DEF FullPage
  <2>5. n \in Nat /\ Offset = n
    BY <2>1, <2>3, <2>4, OffsetIs
  <2>6. shown' = t
    BY <2>2, <2>4, <2>5 DEF Deliver
  <2> HIDE DEF n
  <2>7. Len(t) = PerPage /\ PerPage > 0 => n + PerPage <= Cardinality(rows)
    BY <1>0, <2>5, PageFetched
  <2> HIDE DEF t
  <2>8. n + PerPage <= Cardinality(rows)
    BY <2>4, <2>6, <2>7
  <2> QED  BY <1>0, <2>5, <2>8 DEF n
<1>4. CASE fetch_after_cursor
  BY <1>4 DEF fetch_after_cursor
<1>5. CASE fetch_fails
  <2>1. shown' = <<>> /\ client = "rows" /\ page' = page
    BY <1>5 DEF fetch_fails, Deliver
  <2>2. ~ FullPage'
    BY <1>0, <2>1 DEF FullPage
  <2> QED  BY <2>1, <2>2 DEF OffsetInv
<1>6. CASE next_page
  <2>1. client = "answered" /\ shown' = shown
    BY <1>6 DEF next_page, answer
  <2>2. CASE FullPage
    <3>1. client' \in {"before", "rows"} /\ page' = page + 1
      BY <1>6, <2>2 DEF next_page, Ask, FullPage
    <3>2. CASE page >= 1
      <4>1. (page - 1) * PerPage + PerPage <= Cardinality(Row)
        BY <2>1, <2>2, <3>2 DEF OffsetInv
      <4>2. (page' - 1) * PerPage = (page - 1) * PerPage + PerPage
        BY <1>0, <3>1
      <4> QED  BY <3>1, <4>1, <4>2
    <3>3. CASE page = 0
      BY <3>1, <3>3
    <3> QED  BY <1>0, <3>2, <3>3
  <2>3. CASE ~ FullPage
    BY <1>6, <2>3 DEF next_page, FullPage
  <2> QED  BY <2>2, <2>3
<1>7. ASSUME UNCHANGED <<client, page, shown>> PROVE Goal
  <2>1. FullPage' <=> FullPage
    BY <1>0, <1>7 DEF FullPage
  <2> QED  BY <1>7, <2>1 DEF OffsetInv
<1>8. ASSUME NEW r \in Row, row_inserted(r) \/ row_deleted(r) \/ row_moved(r)
      PROVE  UNCHANGED <<client, page, shown>>
  BY <1>8 DEF row_inserted, row_deleted, row_moved, Change, answer
<1>9. UNCHANGED listVars => UNCHANGED <<client, page, shown>>
  BY DEF listVars, answer
<1> QED
  BY <1>1, <1>2, <1>3, <1>4, <1>5, <1>6, <1>7, <1>8, <1>9 DEF ListingNext

\* pagination_total is right, counted or not.
LEMMA TotalNext ==
    ASSUME RowsFit, ListTypeInv, ListTypeInv', OffsetInv, TotalInv, [ListingNext]_listVars
    PROVE  TotalInv'
<1> SUFFICES ASSUME ~ changed'
             PROVE  /\ client' = "rows" /\ list.total = "before" => total' = Cardinality(rows')
                    /\ client' = "after" /\ page' >= 1 =>
                          Unlimited \/ Len(shown') = Fill((page - 1) * PerPage)'
                    /\ client' = "answered" /\ list.total # "none" /\ page' >= 1
                          /\ (page' = 1 \/ shown' # <<>>) => total' = Cardinality(rows')
  BY NothingElseAsked, AskedStays DEF TotalInv
<1> DEFINE Goal == /\ client' = "rows" /\ list.total = "before" => total' = Cardinality(rows')
                   /\ client' = "after" /\ page' >= 1 =>
                          Unlimited \/ Len(shown') = Fill((page - 1) * PerPage)'
                   /\ client' = "answered" /\ list.total # "none" /\ page' >= 1
                          /\ (page' = 1 \/ shown' # <<>>) => total' = Cardinality(rows')
<1> SUFFICES Goal
  OBVIOUS
<1>0. /\ UNCHANGED asked /\ PerPage' = PerPage /\ (Unlimited' <=> Unlimited) /\ list' = list
      /\ PerPage \in Nat /\ page \in Nat /\ page' \in Nat /\ rows \subseteq Row
      /\ Cardinality(rows) \in Nat /\ shown \in Seq(Row)
      /\ list.total \in {"before", "after", "short", "none"}
      /\ client = "after" => list.total \in {"short", "after"}
      /\ client = "before" => list.total = "before"
      /\ ByCursor => list.total = "none" /\ client \notin {"before", "after"}
  <2>1. UNCHANGED asked
    BY NothingElseAsked
  <2>2. /\ page \in Nat /\ page' \in Nat /\ rows \subseteq Row /\ list \in Lists /\ shown \in Seq(Row)
        /\ client = "after" => list.total \in {"short", "after"}
        /\ client = "before" => list.total = "before"
        /\ ByCursor => client \notin {"before", "after"}
    BY DEF ListTypeInv, ListingTypeOK, ClientFits
  <2> QED  BY <2>1, <2>2, AskedStays, PerPageIs, RowsAreFinite, ListsHaveInCommon DEF ByCursor
<1>1. CASE begin_sweep
  <2>1. client' \in {"before", "rows"} /\ (client' = "rows" => list.total # "before")
    BY <1>1 DEF begin_sweep, Ask
  <2> QED  BY <2>1
<1>2. CASE count_before
  BY <1>0, <1>2 DEF count_before, listTable
<1>3. CASE fetch_page
  <2>1. /\ UNCHANGED <<page, rows, total, changed>> /\ UNCHANGED listTable /\ client = "rows" /\ ~ ByCursor
    BY <1>3 DEF fetch_page, listTable, listHistory
  <2>2. PICK s \in Results(rows) : Deliver(IF Unlimited THEN s ELSE Slice(s, Offset, PerPage))
    BY <1>3 DEF fetch_page
  <2>3. /\ client' \in {"after", "answered"}
        /\ client' = "answered" => list.total \in {"before", "none"}
    BY <1>0, <2>2 DEF Deliver
  <2>4. list.total = "before" => total = Cardinality(rows)
    BY <2>1 DEF TotalInv
  <2>5. page >= 1 => Unlimited \/ Len(shown') = Fill((page - 1) * PerPage)'
    <3> SUFFICES ASSUME page >= 1, ~ Unlimited PROVE Len(shown') = Fill((page - 1) * PerPage)'
      OBVIOUS
    <3> DEFINE n == (page - 1) * PerPage
    <3>1. n \in Nat /\ Offset = n
      BY <2>1, OffsetIs DEF OffsetInv
    <3>2. shown' = Slice(s, n, PerPage)
      BY <2>2, <3>1 DEF Deliver
    <3>3. n' = n
      BY <1>0, <2>1
    <3> HIDE DEF n
    <3>4. Len(shown') = Fill(n)
      BY <1>0, <3>1, <3>2, PageFetched
    <3>5. Fill(n)' = Fill(n)
      BY <1>0, <2>1, <3>3 DEF Fill
    <3> QED  BY <3>4, <3>5 DEF n
  <2> QED  BY <2>1, <2>3, <2>4, <2>5
<1>4. CASE fetch_after_cursor
  <2>1. client' # "rows" /\ client' # "after" /\ list.total = "none"
    BY <1>0, <1>4 DEF fetch_after_cursor, Deliver
  <2> QED  BY <2>1
<1>5. CASE fetch_fails
  BY <1>5 DEF fetch_fails
<1>6. CASE count_after
  <2>1. /\ UNCHANGED <<page, rows, shown, changed>> /\ client = "after" /\ client' = "answered"
        /\ total' = IF skip_count THEN (page - 1) * PerPage + Len(shown) ELSE Cardinality(rows)
    BY <1>6 DEF count_after, listTable, answer, listHistory
  <2>2. CASE ~ skip_count
    BY <2>1, <2>2
  <2>3. CASE skip_count
    <3> SUFFICES ASSUME page >= 1, page = 1 \/ shown # <<>>
                 PROVE  (page - 1) * PerPage + Len(shown) = Cardinality(rows)
      BY <2>1, <2>3
    <3> DEFINE n == (page - 1) * PerPage
    <3>1. ~ Unlimited /\ Len(shown) < PerPage
      BY <2>3 DEF skip_count
    <3>2. Len(shown) = Fill(n)
      BY <2>1, <3>1 DEF TotalInv
    <3>3. n \in Nat /\ (page = 1 => n = 0)
      BY <1>0
    <3> SUFFICES n + Len(shown) = Cardinality(rows)
      OBVIOUS
    <3> HIDE DEF n
    <3>4. n = 0 \/ Len(shown) > 0
      BY <1>0, <3>3
    <3>5. CASE n + PerPage < Cardinality(rows)
      BY <3>1, <3>2, <3>5, <1>0 DEF Fill
    <3>6. CASE ~ (n + PerPage < Cardinality(rows)) /\ n < Cardinality(rows)
      BY <3>2, <3>3, <3>6, <1>0 DEF Fill
    <3>7. CASE ~ (n + PerPage < Cardinality(rows)) /\ ~ (n < Cardinality(rows))
      BY <3>2, <3>3, <3>4, <3>7, <1>0 DEF Fill
    <3> QED  BY <3>5, <3>6, <3>7
  <2> QED  BY <2>2, <2>3
<1>7. CASE next_page
  <2>1. client' \in {"before", "rows", "over"} /\ (client' = "rows" => list.total # "before")
    BY <1>7 DEF next_page, Ask
  <2> QED  BY <2>1
<1>8. ASSUME NEW r \in Row, row_inserted(r) \/ row_deleted(r) \/ row_moved(r) PROVE Goal
  BY <1>8 DEF row_inserted, row_deleted, row_moved, Change
<1>9. CASE UNCHANGED listVars
  <2>1. UNCHANGED <<client, total, page, shown, rows, changed>>
    BY <1>9 DEF listVars, answer, listTable, listHistory
  <2>2. Fill((page - 1) * PerPage)' = Fill((page - 1) * PerPage)
    BY <1>0, <2>1 DEF Fill
  <2> QED  BY <1>0, <2>1, <2>2 DEF TotalInv
<1> QED
  BY <1>1, <1>2, <1>3, <1>4, <1>5, <1>6, <1>7, <1>8, <1>9 DEF ListingNext

(***************************************************************************)
(* Cursors                                                                 *)
(***************************************************************************)

\* After a cursor come the rows of s, and after its last row on the page the others.
LEMMA CursorNext ==
    ASSUME ListTypeInv, ListTypeInv', CursorInv, [ListingNext]_listVars
    PROVE  CursorInv'
<1> SUFFICES ASSUME ByCursor
             PROVE  /\ ~ repeated'
                    /\ got' \subseteq rows' \cup gone' /\ rows' \cap gone' = {}
                    /\ client' = "idle" => got' = {}
                    /\ client' = "rows" \/ (client' = "answered" /\ more') =>
                          /\ \A r \in got' : ~ and_cursor_keyset(r)'
                          /\ \A r \in stayed' \ got' : and_cursor_keyset(r)'
                    /\ (client' = "answered" /\ ~ more') \/ client' = "over" =>
                          failed' \/ stayed' \subseteq got'
  BY NothingElseAsked, AskedStays DEF CursorInv
<1> DEFINE Goal == /\ ~ repeated'
                   /\ got' \subseteq rows' \cup gone' /\ rows' \cap gone' = {}
                   /\ client' = "idle" => got' = {}
                   /\ client' = "rows" \/ (client' = "answered" /\ more') =>
                          /\ \A r \in got' : ~ and_cursor_keyset(r)'
                          /\ \A r \in stayed' \ got' : and_cursor_keyset(r)'
                   /\ (client' = "answered" /\ ~ more') \/ client' = "over" =>
                          failed' \/ stayed' \subseteq got'
<1> SUFFICES Goal
  OBVIOUS
<1>0. /\ UNCHANGED asked /\ asc' = asc
      /\ list.total = "none" /\ list.order = "total" /\ ~ list.moves
      /\ PerPage \in Nat /\ (Unlimited \/ PerPage > 0)
      /\ client \notin {"before", "after"}
      /\ rows \subseteq Row /\ stayed \subseteq rows /\ Keyed
  <2>1. UNCHANGED asked
    BY NothingElseAsked
  <2>2. list \in Lists /\ rows \subseteq Row /\ stayed \subseteq rows /\ client \notin {"before", "after"}
        /\ Keyed
    BY DEF ListTypeInv, ListingTypeOK, ClientFits, Keyed
  <2>3. asc' = asc
    BY <2>1 DEF asked
  <2> QED  BY <2>1, <2>2, <2>3, ListsHaveInCommon, PerPageIs DEF ByCursor
<1>i. /\ ~ repeated
      /\ got \subseteq rows \cup gone /\ rows \cap gone = {}
      /\ client = "idle" => got = {}
      /\ client = "rows" \/ (client = "answered" /\ more) =>
              /\ \A r \in got : ~ and_cursor_keyset(r)
              /\ \A r \in stayed \ got : and_cursor_keyset(r)
      /\ (client = "answered" /\ ~ more) \/ client = "over" => failed \/ stayed \subseteq got
  BY DEF CursorInv
<1>1. CASE begin_sweep
  <2>1. /\ client = "idle" /\ client' = "rows" /\ cursor' = <<IF asc THEN 0 ELSE MaxKey + 1, 0>>
        /\ UNCHANGED <<rows, key, got, repeated, stayed, gone>>
    BY <1>0, <1>1 DEF begin_sweep, Ask, listTable, answer
  <2>2. \A r \in Row : and_cursor_keyset(r)'
    BY <1>0, <2>1, ListingAssumption DEF and_cursor_keyset, KeyBefore, Keyed
  <2>3. got = {}
    BY <1>i, <2>1
  <2> QED  BY ONLY <1>i, <1>0, <2>1, <2>2, <2>3
<1>2. CASE fetch_after_cursor
  <2> DEFINE S == {r \in rows : and_cursor_keyset(r)}
  <2>1. PICK s \in Results(S) : /\ Deliver(IF Unlimited THEN s ELSE Slice(s, 0, PerPage))
                                /\ more' = (~ Unlimited /\ Len(s) > PerPage)
    BY <1>2 DEF fetch_after_cursor
  <2>2. S \in SUBSET Row /\ S \subseteq rows
    BY <1>0
  <2>3. /\ client = "rows" /\ UNCHANGED <<rows, key, stayed, gone, failed>>
        /\ client' = "answered"
        /\ cursor' = IF more' THEN <<key[shown'[PerPage]], shown'[PerPage]>> ELSE cursor
    BY <1>0, <1>2, <2>1 DEF fetch_after_cursor, Deliver, listTable, listHistory
  <2>4. \A r \in stayed \ got : r \in S
    BY <1>0, <1>i, <2>3
  <2>5. \A r \in got : r \notin S
    BY <1>i, <2>3
  <2> HIDE DEF S
  <2>6. /\ s \in Seq(S) /\ Len(s) = Cardinality(S) /\ DOMAIN s = 1..Len(s) /\ Len(s) \in Nat
        /\ \A r \in S : \E i \in 1..Len(s) : s[i] = r
        /\ \A i \in 1..Len(s) : s[i] \in S
    BY <2>2, ResultsAreAll
  <2>7. \A i, j \in 1..Len(s) : i < j => RowBefore(s[i], s[j])
    BY <1>0, <2>2, ResultsAreSorted
  <2>8. CASE ~ more'
    <3>1. shown' = s \/ (~ Unlimited /\ shown' = Slice(s, 0, PerPage) /\ Len(s) <= PerPage)
      <4>1. Unlimited \/ ~ (Len(s) > PerPage)
        BY <2>1, <2>8
      <4>2. shown' = IF Unlimited THEN s ELSE Slice(s, 0, PerPage)
        BY <2>1 DEF Deliver
      <4> QED  BY <1>0, <2>6, <4>1, <4>2
    <3>2. \A i \in 1..Len(s) : i \in DOMAIN shown' /\ shown'[i] = s[i]
      <4>1. CASE shown' = s
        BY <2>6, <4>1
      <4>2. CASE shown' = Slice(s, 0, PerPage) /\ Len(s) <= PerPage
        <5>1. /\ shown' \in Seq(S)
              /\ Len(shown') = IF PerPage < Len(s) THEN PerPage ELSE Len(s)
              /\ \A i \in 1..Len(shown') : shown'[i] = s[i]
          BY <1>0, <2>6, <4>2, FirstPage
        <5>2. Len(shown') = Len(s)
          BY <1>0, <2>6, <4>2, <5>1
        <5> QED  BY <2>6, <5>1, <5>2
      <4> QED  BY <3>1, <4>1, <4>2
    <3>3. \A i \in DOMAIN shown' : shown'[i] \in S
      <4>1. CASE shown' = s
        BY <2>6, <4>1
      <4>2. CASE shown' = Slice(s, 0, PerPage)
        <5>1. shown' \in Seq(S)
          BY <1>0, <2>6, <4>2, FirstPage
        <5> QED  BY <5>1
      <4> QED  BY <3>1, <4>1, <4>2
    <3>4. /\ got' = got \cup {shown'[i] : i \in DOMAIN shown'}
          /\ repeated' = (repeated \/ \E i \in DOMAIN shown' : shown'[i] \in got)
      BY <2>1 DEF Deliver
    <3>5. S \subseteq got' /\ got' \subseteq got \cup S
      BY <2>6, <3>2, <3>3, <3>4
    <3>6. ~ repeated'
      BY <1>i, <2>5, <3>3, <3>4
    <3>7. stayed' \subseteq got'
      BY <2>3, <2>4, <3>4, <3>5
    <3>8. got' \subseteq rows' \cup gone' /\ rows' \cap gone' = {}
      BY <1>i, <2>2, <2>3, <3>5
    <3> QED  BY <2>3, <2>8, <3>6, <3>7, <3>8
  <2>9. CASE more'
    <3>1. ~ Unlimited /\ Len(s) > PerPage /\ PerPage > 0 /\ shown' = Slice(s, 0, PerPage)
      BY <1>0, <2>1, <2>9 DEF Deliver
    <3>2. /\ Len(shown') = PerPage /\ shown' \in Seq(S)
          /\ \A i \in 1..PerPage : shown'[i] = s[i]
      <4>1. /\ shown' \in Seq(S)
            /\ Len(shown') = IF PerPage < Len(s) THEN PerPage ELSE Len(s)
            /\ \A i \in 1..Len(shown') : shown'[i] = s[i]
        BY <1>0, <2>6, <3>1, FirstPage
      <4>2. PerPage < Len(s)
        BY <1>0, <2>6, <3>1
      <4> QED  BY <4>1, <4>2
    <3>3. /\ got' = got \cup {s[i] : i \in 1..PerPage}
          /\ repeated' = (repeated \/ \E i \in 1..PerPage : s[i] \in got)
      <4>1. DOMAIN shown' = 1..PerPage
        BY <3>2
      <4> QED  BY <2>1, <3>1, <3>2, <4>1 DEF Deliver
    <3>4. \A i \in 1..PerPage : i \in 1..Len(s) /\ s[i] \in S
      BY <1>0, <2>6, <3>1
    <3>5. PerPage \in 1..PerPage
      BY <1>0, <3>1
    <3> DEFINE last == s[PerPage]
    <3>6. last \in S /\ cursor' = <<key[last], last>>
      BY <2>3, <2>9, <3>2, <3>4, <3>5
    <3>7. last \in Row
      BY <2>2, <3>6
    <3> HIDE DEF last
    <3>8. \A r \in Row : and_cursor_keyset(r)' <=> RowBefore(last, r)
      BY <1>0, <2>3, <3>6 DEF and_cursor_keyset, RowBefore, KeyBefore
    <3>9. \A r \in S : RowBefore(last, r) <=> \A i \in 1..PerPage : r # s[i]
      <4> SUFFICES ASSUME NEW j \in 1..Len(s)
                   PROVE  RowBefore(last, s[j]) <=> \A i \in 1..PerPage : s[j] # s[i]
        BY <2>6
      <4>0. s[j] \in Row /\ j \in Nat
        BY <2>2, <2>6
      <4>1. CASE j < PerPage
        <5>1. RowBefore(s[j], last)
          BY <2>7, <3>4, <3>5, <4>1 DEF last
        <5>2. ~ RowBefore(last, s[j])
          BY <1>0, <3>7, <4>0, <5>1, RowsAreOrdered
        <5> QED  BY <4>0, <4>1, <5>2, <1>0
      <4>2. CASE j = PerPage
        BY <1>0, <3>5, <3>7, <4>2, RowsAreOrdered DEF last
      <4>3. CASE j > PerPage
        <5>1. \A i \in 1..PerPage : RowBefore(s[i], s[j])
          BY <1>0, <2>7, <3>4, <4>0, <4>3
        <5>2. \A i \in 1..PerPage : s[i] # s[j]
          BY <1>0, <4>0, <5>1, RowsAreOrdered
        <5> QED  BY <3>5, <5>1, <5>2 DEF last
      <4> QED  BY <1>0, <4>0, <4>1, <4>2, <4>3
    <3>10. \A r \in got : ~ and_cursor_keyset(r)'
      <4> SUFFICES ASSUME NEW r \in got, and_cursor_keyset(r)' PROVE FALSE
        OBVIOUS
      <4>1. r \in Row
        BY DEF ListTypeInv, ListingTypeOK
      <4>2. RowBefore(last, r)
        BY <3>8, <4>1
      <4>3. and_cursor_keyset(last) /\ ~ and_cursor_keyset(r)
        BY <1>i, <2>3, <3>6 DEF S
      <4>4. cursor[1] \in Int /\ cursor[2] \in Int /\ key[r] \in Int /\ key[last] \in Int
            /\ r \in Int /\ last \in Int
        <5>1. MaxKey \in Nat /\ Row \subseteq Nat
          BY ListingAssumption
        <5>2. cursor \in (0..MaxKey + 1) \X (Row \cup {0})
          BY DEF ListTypeInv, ListingTypeOK
        <5>3. key[r] \in 1..MaxKey /\ key[last] \in 1..MaxKey
          BY <1>0, <3>7, <4>1 DEF Keyed
        <5>4. cursor[1] \in 0..(MaxKey + 1) /\ cursor[2] \in Row \cup {0}
          BY <5>2
        <5>5. cursor[1] \in Int /\ cursor[2] \in Int
          <6>1. Row \cup {0} \subseteq Int /\ 0..(MaxKey + 1) \subseteq Int
            BY ONLY <5>1
          <6> QED  BY ONLY <5>4, <6>1
        <5>6. key[r] \in Int /\ key[last] \in Int
          BY ONLY <5>1, <5>3
        <5> QED  BY ONLY <3>7, <4>1, <5>1, <5>5, <5>6
      <4>5. asc \in BOOLEAN
        BY <1>0 DEF Keyed
      <4> QED  BY ONLY <4>2, <4>3, <4>4, <4>5 DEF and_cursor_keyset, RowBefore, KeyBefore
    <3>11. \A r \in got' : ~ and_cursor_keyset(r)'
      BY <2>2, <3>3, <3>4, <3>8, <3>9, <3>10
    <3>12. \A r \in stayed' \ got' : and_cursor_keyset(r)'
      BY <2>2, <2>3, <2>4, <3>3, <3>8, <3>9
    <3>13. ~ repeated'
      BY <1>i, <2>5, <3>3, <3>4
    <3>14. got' \subseteq rows' \cup gone' /\ rows' \cap gone' = {}
      BY <1>i, <2>2, <2>3, <3>3, <3>4
    <3> QED  BY <2>3, <2>9, <3>11, <3>12, <3>13, <3>14
  <2> QED  BY <2>8, <2>9
<1>3. CASE fetch_fails
  <2>1. /\ UNCHANGED <<rows, gone>> /\ client' = "answered" /\ ~ more' /\ failed'
        /\ got' = got \cup {} /\ repeated' = (repeated \/ FALSE)
    BY <1>0, <1>3 DEF fetch_fails, Deliver, listTable
  <2> QED  BY <1>i, <2>1
<1>4. CASE next_page
  <2>1. /\ UNCHANGED <<rows, key, cursor, asc, got, repeated, stayed, gone, failed, more>>
        /\ client = "answered" /\ client' = IF more THEN "rows" ELSE "over"
    BY <1>0, <1>4 DEF next_page, Ask, listTable, answer
  <2>2. \A r : and_cursor_keyset(r)' <=> and_cursor_keyset(r)
    BY <2>1 DEF and_cursor_keyset, KeyBefore
  <2> QED  BY ONLY <1>i, <2>1, <2>2
<1>5. ASSUME NEW q \in Row, row_inserted(q) \/ row_deleted(q) PROVE Goal
  <2>1. /\ UNCHANGED <<client, cursor, asc, got, repeated, failed, more>>
        /\ stayed' \subseteq stayed /\ q \notin stayed' /\ client # "idle"
        /\ \A r \in Row \ {q} : key'[r] = key[r]
        /\ q \in got => row_deleted(q)
    BY <1>0, <1>i, <1>5 DEF row_inserted, row_deleted, Change, answer, asked, Keyed
  <2>2. got' \subseteq rows' \cup gone' /\ rows' \cap gone' = {}
    BY <1>i, <1>5, <2>1 DEF row_inserted, row_deleted
  <2>3. row_deleted(q) => key' = key
    BY DEF row_deleted
  <2>4. got \subseteq Row /\ stayed \subseteq Row
    BY DEF ListTypeInv, ListingTypeOK
  <2>5. \A r \in got \cup stayed' : and_cursor_keyset(r)' <=> and_cursor_keyset(r)
    <3> SUFFICES ASSUME NEW r \in got \cup stayed'
                 PROVE  and_cursor_keyset(r)' <=> and_cursor_keyset(r)
      OBVIOUS
    <3>1. key'[r] = key[r]
      BY <2>1, <2>3, <2>4
    <3> QED  BY <2>1, <3>1 DEF and_cursor_keyset, KeyBefore
  <2> QED  BY ONLY <1>i, <2>1, <2>2, <2>5
<1>6. \A r \in Row : ~ row_moved(r)
  BY <1>0 DEF row_moved
<1>7. ~ count_before /\ ~ fetch_page /\ ~ count_after
  BY <1>0 DEF count_before, fetch_page, count_after
<1>8. CASE UNCHANGED listVars
  <2>1. /\ UNCHANGED <<rows, key, cursor, asc, got, repeated, stayed, gone, failed, more, client>>
    BY <1>8 DEF listVars, listTable, answer, asked, listHistory
  <2>2. \A r : and_cursor_keyset(r)' <=> and_cursor_keyset(r)
    BY <2>1 DEF and_cursor_keyset, KeyBefore
  <2> QED  BY ONLY <1>i, <2>1, <2>2
<1> QED
  BY <1>1, <1>2, <1>3, <1>4, <1>5, <1>6, <1>7, <1>8 DEF ListingNext

\* ListIsExact: a client that reads a list with a unique order to its end is given every row
\* that stayed, with cursors none twice, and totals are right, whatever rows come and go, as
\* far as each part says: for any table and pages that u32 can count.
THEOREM ListsAreExact == ASSUME RowsFit PROVE ListingSpec => []ListIsExact
<1>1. ListInv => ListIsExact
  <2> SUFFICES ASSUME ListInv PROVE ListIsExact
    OBVIOUS
  <2>1. PagingMissesNothing
    BY DEF ListInv, SweepInv, Sweeping, PagingMissesNothing
  <2>2. CursorIsExact
    BY DEF ListInv, CursorInv, CursorIsExact
  <2>3. TotalIsExact
    BY DEF ListInv, ListTypeInv, ListingTypeOK, TotalInv, TotalIsExact
  <2> QED  BY <2>1, <2>2, <2>3 DEF ListIsExact
<1>2. ListInv /\ [ListingNext]_listVars => ListInv'
  <2> SUFFICES ASSUME ListInv, [ListingNext]_listVars PROVE ListInv'
    OBVIOUS
  <2>1. ListTypeInv /\ SweepInv /\ OffsetInv /\ TotalInv /\ CursorInv
    BY DEF ListInv
  <2>2. ListTypeInv'
    BY <2>1, ListTypeNext
  <2> QED  BY <2>1, <2>2, SweepNext, OffsetNext, TotalNext, CursorNext DEF ListInv
<1> QED  BY <1>1, <1>2, ListInit, PTL DEF ListingSpec

-----------------------------------------------------------------------------
(* Pricing: numbers                                                        *)

\* A set of numbers has a least element.
LEMMA Least == ASSUME NEW T \in SUBSET Nat, T # {} PROVE \E n \in T : \A m \in T : n <= m
<1> DEFINE R == OpToRel(<, Nat)
<1>1. IsWellFoundedOn(R, Nat)
  BY NatLessThanWellFounded
<1>2. \A x, y \in Nat : <<x, y>> \in R <=> x < y
  BY DEF OpToRel
<1> HIDE DEF R
<1>3. PICK n \in T : \A m \in T : ~ (<<m, n>> \in R)
  BY <1>1, WFMin
<1>4. \A m \in T : ~ (m < n)
  BY <1>2, <1>3
<1> QED
  BY <1>4

\* A set of numbers with a bound has a greatest one.
LEMMA Greatest == ASSUME NEW n \in Nat, NEW S \in SUBSET (1..n), S # {}
                  PROVE  Max(S) \in S /\ \A m \in S : m <= Max(S)
<1> DEFINE B == {b \in Nat : \A m \in S : m <= b}
<1>1. n \in B
  OBVIOUS
<1>2. PICK b \in B : \A y \in B : b <= y
  BY <1>1, Least
<1>3. b \in S
  <2> SUFFICES ASSUME b \notin S PROVE FALSE
    OBVIOUS
  <2>1. PICK m \in S : TRUE
    OBVIOUS
  <2>2. b - 1 \in B
    BY <2>1
  <2> QED  BY <1>2, <2>2
<1> QED
  <2>1. \A m \in S : b >= m
    OBVIOUS
  <2>2. \E x \in S : \A y \in S : x >= y
    BY <1>3, <2>1
  <2>3. Max(S) \in S /\ \A y \in S : Max(S) >= y
    BY <2>2, Zenon DEF Max
  <2> QED  BY <2>3

-----------------------------------------------------------------------------
(* Pricing: the order of discounts                                         *)

\* The entries of a list of discounts.
LEMMA EntriesAre ==
    ASSUME NEW ds \in Discounts
    PROVE  /\ Len(ds) \in Nat /\ DOMAIN ds = 1..Len(ds)
           /\ \A i \in DOMAIN ds : /\ ds[i].min_compute_units \in Nat
                                   /\ ds[i].discount \in 0..Whole
<1> DEFINE Entry == [min_compute_units : Nat, discount : 0..Whole]
<1>1. ds \in Seq(Entry)
  BY DEF Discounts
<1>2. \A d \in Entry : d.min_compute_units \in Nat /\ d.discount \in 0..Whole
  OBVIOUS
<1> HIDE DEF Entry
<1> QED  BY <1>1, <1>2

\* What sort_by puts first: the lower threshold, and of equal ones the first.
Earlier(ds, i, j) ==
    \/ ds[i].min_compute_units < ds[j].min_compute_units
    \/ ds[i].min_compute_units = ds[j].min_compute_units /\ i < j

Ahead(ds, i) == {j \in DOMAIN ds : Earlier(ds, j, i)}

\* The place in a list of its entry of rank n.
Place(ds, n) == CHOOSE i \in DOMAIN ds : Cardinality(Ahead(ds, i)) = n - 1

\* Sorting puts the entry of rank n at place n.
LEMMA SortedByPlace ==
    ASSUME NEW ds \in Discounts
    PROVE  SortedDiscounts(ds) = [n \in DOMAIN ds |-> ds[Place(ds, n)]]
BY DEF SortedDiscounts, Place, Ahead, Earlier

\* Each place has one rank and each rank one place: what is earlier has a lower rank.
LEMMA PlacesAre ==
    ASSUME NEW ds \in Discounts
    PROVE  /\ \A n \in DOMAIN ds : Place(ds, n) \in DOMAIN ds
           /\ \A i \in DOMAIN ds : \E n \in DOMAIN ds : Place(ds, n) = i
           /\ \A m, n \in DOMAIN ds : m < n => Earlier(ds, Place(ds, m), Place(ds, n))
<1> DEFINE N == Len(ds)
           D == DOMAIN ds
           R == [i \in D |-> Cardinality(Ahead(ds, i)) + 1]
<1>1. N \in Nat /\ D = 1..N /\ \A i \in D : ds[i].min_compute_units \in Nat
  BY EntriesAre
<1>2. /\ \A i \in D : ~ Earlier(ds, i, i)
      /\ \A i, j, k \in D : Earlier(ds, i, j) /\ Earlier(ds, j, k) => Earlier(ds, i, k)
      /\ \A i, j \in D : i = j \/ Earlier(ds, i, j) \/ Earlier(ds, j, i)
  BY <1>1 DEF Earlier
<1>3. \A i \in D : /\ Ahead(ds, i) \subseteq D /\ i \notin Ahead(ds, i)
                  /\ \A j \in D : j \in Ahead(ds, i) <=> Earlier(ds, j, i)
  BY <1>2 DEF Ahead
<1>4. IsFiniteSet(D) /\ Cardinality(D) = N
  <2>1. IsFiniteSet(1..N) /\ Cardinality(1..N) = IF 1 > N THEN 0 ELSE N - 1 + 1
    BY <1>1, FS_Interval
  <2> QED  BY <1>1, <2>1
<1> HIDE DEF D, N
<1>5. \A i \in D : R[i] \in D
  <2> SUFFICES ASSUME NEW i \in D PROVE R[i] \in D
    OBVIOUS
  <2>1. Ahead(ds, i) \subseteq D /\ Ahead(ds, i) # D
    BY <1>3
  <2>2. /\ IsFiniteSet(Ahead(ds, i)) /\ Cardinality(Ahead(ds, i)) <= Cardinality(D)
        /\ Cardinality(Ahead(ds, i)) # Cardinality(D)
    BY <1>4, <2>1, FS_Subset
  <2>3. Cardinality(Ahead(ds, i)) \in Nat
    BY <2>2, FS_CardinalityType
  <2> QED  BY <1>1, <1>4, <2>2, <2>3
<1>6. \A i, j \in D : Earlier(ds, i, j) => R[i] < R[j]
  <2> SUFFICES ASSUME NEW i \in D, NEW j \in D, Earlier(ds, i, j) PROVE R[i] < R[j]
    OBVIOUS
  <2>1. Ahead(ds, i) \subseteq Ahead(ds, j) /\ Ahead(ds, i) # Ahead(ds, j)
    BY <1>2, <1>3
  <2>2. IsFiniteSet(Ahead(ds, j))
    BY <1>3, <1>4, FS_Subset
  <2>3. /\ IsFiniteSet(Ahead(ds, i)) /\ Cardinality(Ahead(ds, i)) <= Cardinality(Ahead(ds, j))
        /\ Cardinality(Ahead(ds, i)) # Cardinality(Ahead(ds, j))
    BY <2>1, <2>2, FS_Subset
  <2>4. Cardinality(Ahead(ds, i)) \in Nat /\ Cardinality(Ahead(ds, j)) \in Nat
    BY <2>2, <2>3, FS_CardinalityType
  <2> QED  BY <2>3, <2>4
<1>7. D \subseteq Nat
  BY <1>1
<1>8. R \in [D -> D] /\ \A i \in D : R[i] = Cardinality(Ahead(ds, i)) + 1
  BY <1>5
<1> HIDE DEF R
<1>9. \A i, j \in D : R[i] = R[j] => i = j
  <2> SUFFICES ASSUME NEW i \in D, NEW j \in D, R[i] = R[j], i # j PROVE FALSE
    OBVIOUS
  <2>1. R[i] \in Nat /\ R[j] \in Nat
    BY <1>5, <1>7
  <2>2. Earlier(ds, i, j) \/ Earlier(ds, j, i)
    BY <1>2
  <2>3. R[i] < R[j] \/ R[j] < R[i]
    BY <1>6, <2>2
  <2> QED  BY <2>1, <2>3
<1>10. \A n \in D : \E i \in D : R[i] = n
  <2>1. R \in Injection(D, D)
    BY <1>8, <1>9 DEF Injection, IsInjective
  <2>2. R \in Surjection(D, D)
    BY <1>4, <2>1, FS_Injection
  <2> QED  BY <2>2 DEF Surjection
<1>11. \A n \in D : Place(ds, n) \in D /\ R[Place(ds, n)] = n
  <2> SUFFICES ASSUME NEW n \in D PROVE Place(ds, n) \in D /\ R[Place(ds, n)] = n
    OBVIOUS
  <2>1. \A i \in D : Cardinality(Ahead(ds, i)) \in Nat
    BY <1>3, <1>4, FS_Subset, FS_CardinalityType
  <2>2. PICK i \in D : R[i] = n
    BY <1>10
  <2>3. Cardinality(Ahead(ds, i)) = n - 1
    BY <1>8, <2>1, <2>2
  <2>4. Place(ds, n) \in DOMAIN ds /\ Cardinality(Ahead(ds, Place(ds, n))) = n - 1
    BY <2>3, Zenon DEF Place, D
  <2> QED  BY <1>7, <1>8, <2>1, <2>4 DEF D
<1>12. \A i \in D : \E n \in D : Place(ds, n) = i
  BY <1>5, <1>9, <1>11
<1>13. \A m, n \in D : m < n => Earlier(ds, Place(ds, m), Place(ds, n))
  <2> SUFFICES ASSUME NEW m \in D, NEW n \in D, m < n PROVE Earlier(ds, Place(ds, m), Place(ds, n))
    OBVIOUS
  <2>1. m \in Nat /\ n \in Nat
    BY <1>7
  <2> DEFINE i == Place(ds, m)
             j == Place(ds, n)
  <2>2. i \in D /\ j \in D /\ R[i] = m /\ R[j] = n
    BY <1>11
  <2> HIDE DEF i, j
  <2>3. i # j /\ ~ Earlier(ds, j, i)
    BY <1>6, <2>1, <2>2
  <2>4. Earlier(ds, i, j)
    BY <1>2, <2>2, <2>3
  <2> QED  BY <2>4 DEF i, j
<1> QED  BY <1>11, <1>12, <1>13 DEF D

\* Sorting keeps what the entries are.
LEMMA SortedAreDiscounts ==
    ASSUME NEW ds \in Discounts PROVE SortedDiscounts(ds) \in Discounts
<1> DEFINE Entry == [min_compute_units : Nat, discount : 0..Whole]
<1>1. ds \in Seq(Entry)
  BY DEF Discounts
<1> HIDE DEF Entry
<1>2. \A n \in DOMAIN ds : ds[Place(ds, n)] \in Entry
  BY <1>1, PlacesAre
<1>3. [n \in DOMAIN ds |-> ds[Place(ds, n)]] \in Seq(Entry)
  BY <1>1, <1>2
<1> QED  BY <1>3, SortedByPlace DEF Discounts, Entry

\* The entries the loop of get_volume_discount reaches.
Reached(ds, units) ==
    {n \in DOMAIN ds : \A i \in 1..n : ds[i].min_compute_units <= units}

LEMMA DiscountIs ==
    ASSUME NEW ds \in Discounts, NEW units
    PROVE  /\ get_volume_discount(ds, units) \in 0..Whole
           /\ Reached(ds, units) = {} => get_volume_discount(ds, units) = 0
           /\ Reached(ds, units) # {} =>
                 \E k \in Reached(ds, units) :
                     /\ \A m \in Reached(ds, units) : m <= k
                     /\ get_volume_discount(ds, units) = ds[k].discount
<1> DEFINE S == Reached(ds, units)
<1>1. get_volume_discount(ds, units) = IF S = {} THEN 0 ELSE ds[Max(S)].discount
  BY DEF get_volume_discount, Reached
<1>2. S \subseteq DOMAIN ds
  BY DEF Reached
<1>3. S # {} => Max(S) \in S /\ \A m \in S : m <= Max(S)
  BY <1>2, EntriesAre, Greatest
<1>4. Whole \in Nat
  BY PricingAssumption
<1> HIDE DEF S
<1>5. S # {} => ds[Max(S)].discount \in 0..Whole
  BY <1>2, <1>3, EntriesAre
<1>6. get_volume_discount(ds, units) \in 0..Whole
  BY <1>1, <1>4, <1>5
<1> QED  BY <1>1, <1>3, <1>6 DEF S

\* Of the sorted list the loop reaches what it would reach in any order.
LEMMA SortedReached ==
    ASSUME NEW ds \in Discounts, NEW units \in Nat, NEW n \in DOMAIN ds
    PROVE  n \in Reached(SortedDiscounts(ds), units)
              <=> ds[Place(ds, n)].min_compute_units <= units
<1> DEFINE s == SortedDiscounts(ds)
<1>1. DOMAIN s = DOMAIN ds /\ \A m \in DOMAIN ds : s[m] = ds[Place(ds, m)]
  BY SortedByPlace
<1>2. DOMAIN ds = 1..Len(ds) /\ Len(ds) \in Nat
  BY EntriesAre
<1>3. \A m \in DOMAIN ds : Place(ds, m) \in DOMAIN ds
                            /\ ds[Place(ds, m)].min_compute_units \in Nat
  BY PlacesAre, EntriesAre
<1>4. ASSUME n \in Reached(s, units) PROVE s[n].min_compute_units <= units
  <2>1. n \in 1..n
    BY <1>2
  <2> QED  BY <1>4, <2>1 DEF Reached
<1>5. ASSUME ds[Place(ds, n)].min_compute_units <= units, NEW i \in 1..n
      PROVE  s[i].min_compute_units <= units
  <2>1. i \in DOMAIN ds /\ (i = n \/ i < n)
    BY <1>2
  <2>2. ds[Place(ds, i)].min_compute_units <= ds[Place(ds, n)].min_compute_units
    <3>1. CASE i = n
      BY <1>3, <3>1
    <3>2. CASE i < n
      <4>1. Earlier(ds, Place(ds, i), Place(ds, n))
        BY <2>1, <3>2, PlacesAre
      <4> QED  BY <1>3, <2>1, <4>1 DEF Earlier
    <3> QED  BY <2>1, <3>1, <3>2
  <2> QED  BY <1>1, <1>3, <1>5, <2>1, <2>2
<1> HIDE DEF s
<1>6. ds[Place(ds, n)].min_compute_units <= units => n \in Reached(s, units)
  BY <1>1, <1>5 DEF Reached
<1> QED  BY <1>1, <1>4, <1>6 DEF s

\* The discount of a list in any order, once it is sorted: that of the highest threshold
\* reached, of two equal ones the later.
LEMMA HighestReached ==
    ASSUME NEW ds \in Discounts, NEW units \in Nat
    PROVE  LET reached == {i \in DOMAIN ds : ds[i].min_compute_units <= units}
               best    == {i \in reached : \A j \in reached :
                              \/ ds[j].min_compute_units < ds[i].min_compute_units
                              \/ ds[j].min_compute_units = ds[i].min_compute_units /\ j <= i}
           IN  get_volume_discount(SortedDiscounts(ds), units)
                   \in IF best = {} THEN {0} ELSE {ds[i].discount : i \in best}
<1> DEFINE reached == {i \in DOMAIN ds : ds[i].min_compute_units <= units}
           best    == {i \in reached : \A j \in reached :
                          \/ ds[j].min_compute_units < ds[i].min_compute_units
                          \/ ds[j].min_compute_units = ds[i].min_compute_units /\ j <= i}
           s == SortedDiscounts(ds)
           S == Reached(s, units)
           v == get_volume_discount(s, units)
<1>1. s \in Discounts /\ DOMAIN s = DOMAIN ds /\ \A m \in DOMAIN ds : s[m] = ds[Place(ds, m)]
  BY SortedAreDiscounts, SortedByPlace
<1>2. DOMAIN ds \subseteq Nat
  BY EntriesAre
<1>3. \A m \in S : m \in DOMAIN ds /\ Place(ds, m) \in reached
  BY <1>1, PlacesAre, SortedReached DEF Reached
<1>4. \A i \in reached : \E m \in S : Place(ds, m) = i
  BY PlacesAre, SortedReached
<1>5. CASE S = {}
  <2>1. best = {}
    BY <1>4, <1>5
  <2>2. v = 0
    BY <1>1, <1>5, DiscountIs
  <2> QED  BY <2>1, <2>2
<1>6. CASE S # {}
  <2>1. PICK k \in S : (\A m \in S : m <= k) /\ v = s[k].discount
    BY <1>1, <1>6, DiscountIs
  <2> DEFINE i == Place(ds, k)
  <2>2. k \in DOMAIN ds /\ i \in reached
    BY <1>3
  <2>3. ASSUME NEW j \in reached
        PROVE  \/ ds[j].min_compute_units < ds[i].min_compute_units
               \/ ds[j].min_compute_units = ds[i].min_compute_units /\ j <= i
    <3>1. PICK m \in S : Place(ds, m) = j
      BY <1>4
    <3>2. m \in Nat /\ k \in Nat /\ m <= k /\ i \in Nat /\ m \in DOMAIN ds
      BY <1>2, <1>3, <2>1, <2>2
    <3>3. CASE m = k
      BY <3>1, <3>2, <3>3
    <3>4. CASE m < k
      <4>1. Earlier(ds, j, i)
        BY <2>2, <3>1, <3>2, <3>4, PlacesAre
      <4>2. j \in Nat
        BY <1>2
      <4> QED  BY <3>2, <4>1, <4>2 DEF Earlier
    <3> QED  BY <3>2, <3>3, <3>4
  <2>4. i \in best
    BY <2>2, <2>3
  <2>5. v = ds[i].discount
    BY <1>1, <2>1, <2>2
  <2> HIDE DEF best, i, v
  <2>6. v \in {ds[n].discount : n \in best} /\ best # {}
    BY <2>4, <2>5
  <2> QED  BY <2>6 DEF best, v
<1> QED  BY <1>5, <1>6

-----------------------------------------------------------------------------
(* Pricing: what is quoted                                                 *)

\* Of two numbers.
LEMMA Greater ==
    ASSUME NEW a \in Nat, NEW b \in Nat PROVE Max({a, b}) \in Nat /\ Min({a, b}) \in Nat
<1>1. \E x \in {a, b} : \A y \in {a, b} : x >= y
  OBVIOUS
<1>2. \E x \in {a, b} : \A y \in {a, b} : x =< y
  OBVIOUS
<1>3. Max({a, b}) \in {a, b}
  BY <1>1, Zenon DEF Max
<1>4. Min({a, b}) \in {a, b}
  BY <1>2, Zenon DEF Min
<1> QED  BY <1>3, <1>4

\* Multiplication grows with its factors.
LEMMA Products ==
    ASSUME NEW a \in Nat, NEW b \in Nat, NEW c \in Nat, a <= b
    PROVE  /\ a * c \in Nat /\ b * c \in Nat /\ c * a \in Nat /\ c * b \in Nat
           /\ a * c <= b * c /\ c * a <= c * b
<1>1. PICK d \in Nat : b = a + d
  <2>1. b - a \in Nat /\ b = a + (b - a)
    OBVIOUS
  <2> QED  BY <2>1
<1>2. (a + d) * c = a * c + d * c /\ c * (a + d) = c * a + c * d
  OBVIOUS
<1>3. a * c \in Nat /\ d * c \in Nat /\ c * a \in Nat /\ c * d \in Nat /\ b * c \in Nat /\ c * b \in Nat
  OBVIOUS
<1> QED  BY <1>1, <1>2, <1>3

LEMMA UnitsAre ==
    ASSUME NEW memory \in Nat, NEW vcpus \in Nat
    PROVE  calculate_compute_units(memory, vcpus) \in Nat
<1>1. memory + UnitMemory - 1 \in Nat /\ WordU32 - 1 \in Nat /\ UnitMemory \in Nat \ {0}
  BY PricingAssumption
<1> DEFINE m == Min({memory + UnitMemory - 1, WordU32 - 1})
<1>2. m \in Nat
  BY <1>1, Greater
<1> HIDE DEF m
<1>3. m \div UnitMemory \in Nat
  BY <1>1, <1>2
<1>4. Max({m \div UnitMemory, vcpus}) \in Nat
  BY <1>3, Greater
<1> QED  BY <1>4 DEF calculate_compute_units, m

\* Prices that have the products of VMs.
VmProducts == {"Program", "Instance", "InstanceConfidential"}
Sells(p) == Priced(p) /\ VmProducts \subseteq DOMAIN p

\* What a VM's cost is made of.
BaseCost(p, j) ==
    Plus(calculate_storage_cost(p, j.mib, Hours, j.product),
         calculate_compute_cost(p, j.units, Hours, j.product, j.internet))
CostOf(p, d, j) == Discounted(BaseCost(p, j), get_volume_discount(d, j.units))

AskedJob(r) == IF r = "estimate" THEN EstimateJob ELSE PriceJob

\* get_message_price is asked for rows, whose numbers fit.
Stored == vm.memory < WordU32 /\ vm.vcpus < WordU32

\* For one product the estimate asks for no less of anything.
LEMMA EstimateAsksMore ==
    ASSUME vm \in Quoted, vm.type # "STORE", Stored
    PROVE  /\ EstimateJob.product \in VmProducts /\ PriceJob.product \in VmProducts
           /\ EstimateJob.units = PriceJob.units /\ PriceJob.units \in Nat
           /\ EstimateJob.mib \in Nat /\ PriceJob.mib \in Nat /\ EstimateJob.mib >= PriceJob.mib
           /\ ~ PriceJob.internet
<1>1. /\ vm.type \in {"PROGRAM", "INSTANCE"} /\ vm.memory \in Nat /\ vm.vcpus \in Nat
      /\ vm.volumes \in Nat /\ vm.confidential \in BOOLEAN /\ vm.internet \in BOOLEAN
  BY PricingAssumption
<1>2. WordU32 \in Nat \ {0}
  BY PricingAssumption
<1>3. vm.memory % WordU32 = vm.memory /\ vm.vcpus % WordU32 = vm.vcpus
  BY <1>1, <1>2 DEF Stored
<1>4. BaseStorage[vm.type] \in Nat
  BY <1>1, PricingAssumption
<1>5. calculate_compute_units(vm.memory, vm.vcpus) \in Nat
  BY <1>1, UnitsAre
<1> QED  BY <1>1, <1>3, <1>4, <1>5 DEF EstimateJob, PriceJob, Job, VmProducts

\* More MiB, and the internet's multiplier, never cost less, whatever the prices and the discount.
LEMMA MoreCostsMore ==
    ASSUME NEW p, Sells(p), NEW d \in Discounts, NEW q \in VmProducts, NEW u \in Nat,
           NEW a \in Nat, NEW b \in Nat, a <= b, NEW internet \in BOOLEAN, NEW c \in Column
    PROVE  CostOf(p, d, [product |-> q, units |-> u, mib |-> a, internet |-> FALSE])[c]
              <= CostOf(p, d, [product |-> q, units |-> u, mib |-> b, internet |-> internet])[c]
<1> DEFINE s == p[q].storage[c]
           n == p[q].compute_unit[c]
           x == IF internet THEN InternetMultiplier ELSE Tenths
           w == Whole - get_volume_discount(d, u)
<1>1. /\ Hours \in Nat /\ Tenths \in Nat /\ InternetMultiplier \in Nat /\ Tenths <= InternetMultiplier
      /\ Whole \in Nat
  BY PricingAssumption
<1>2. s \in Nat /\ n \in Nat
  <2>1. p[q].storage \in Amounts /\ p[q].compute_unit \in Amounts
    BY DEF Sells, Priced, VmProducts
  <2> QED  BY <2>1 DEF Amounts
<1>3. w \in Nat
  <2>1. get_volume_discount(d, u) \in 0..Whole
    BY DiscountIs
  <2> QED  BY <1>1, <2>1
<1>4. x \in Nat /\ Tenths <= x
  BY <1>1
<1>5. CostOf(p, d, [product |-> q, units |-> u, mib |-> a, internet |-> FALSE])[c]
         = (s * (a * Hours * Tenths) + n * (u * Hours * Tenths)) * w
  BY DEF CostOf, BaseCost, Discounted, Plus, Times, calculate_storage_cost, calculate_compute_cost
<1>6. CostOf(p, d, [product |-> q, units |-> u, mib |-> b, internet |-> internet])[c]
         = (s * (b * Hours * Tenths) + n * (u * Hours * x)) * w
  BY DEF CostOf, BaseCost, Discounted, Plus, Times, calculate_storage_cost, calculate_compute_cost
<1> HIDE DEF s, n, x, w
<1>7. s * (a * Hours * Tenths) \in Nat /\ s * (b * Hours * Tenths) \in Nat
      /\ s * (a * Hours * Tenths) <= s * (b * Hours * Tenths)
  <2>1. a * Hours \in Nat /\ b * Hours \in Nat /\ a * Hours <= b * Hours
    BY <1>1, Products
  <2>2. a * Hours * Tenths \in Nat /\ b * Hours * Tenths \in Nat
        /\ a * Hours * Tenths <= b * Hours * Tenths
    BY <1>1, <2>1, Products
  <2> QED  BY <1>2, <2>2, Products
<1>8. n * (u * Hours * Tenths) \in Nat /\ n * (u * Hours * x) \in Nat
      /\ n * (u * Hours * Tenths) <= n * (u * Hours * x)
  <2>1. u * Hours \in Nat
    BY <1>1
  <2>2. u * Hours * Tenths \in Nat /\ u * Hours * x \in Nat
        /\ u * Hours * Tenths <= u * Hours * x
    BY <1>1, <1>4, <2>1, Products
  <2> QED  BY <1>2, <2>2, Products
<1> DEFINE l == s * (a * Hours * Tenths) + n * (u * Hours * Tenths)
           g == s * (b * Hours * Tenths) + n * (u * Hours * x)
<1>9. l \in Nat /\ g \in Nat /\ l <= g
  BY <1>7, <1>8
<1> HIDE DEF l, g
<1>10. l * w <= g * w
  BY <1>3, <1>9, Products
<1> QED  BY <1>5, <1>6, <1>10 DEF l, g

\* In one list an estimate covers the price.
LEMMA EstimateCovers ==
    ASSUME vm \in Quoted, vm.type # "STORE", Stored, EstimateJob.product = PriceJob.product,
           NEW p, Sells(p), NEW d \in Discounts, NEW c \in Column
    PROVE  CostOf(p, d, EstimateJob)[c] >= CostOf(p, d, PriceJob)[c]
<1>1. vm.internet \in BOOLEAN
  BY PricingAssumption
<1> DEFINE q == PriceJob.product
           u == PriceJob.units
           a == PriceJob.mib
           b == EstimateJob.mib
<1>2. /\ PriceJob = [product |-> q, units |-> u, mib |-> a, internet |-> FALSE]
  BY DEF PriceJob, Job
<1>3. EstimateJob = [product |-> q, units |-> u, mib |-> b, internet |-> vm.internet]
  <2>1. EstimateJob.units = u
    BY EstimateAsksMore
  <2>2. EstimateJob = [product |-> EstimateJob.product, units |-> EstimateJob.units, mib |-> b,
                       internet |-> vm.internet]
    BY DEF EstimateJob, Job
  <2> QED  BY <2>1, <2>2
<1>4. q \in VmProducts /\ u \in Nat /\ a \in Nat /\ b \in Nat /\ a <= b
  BY EstimateAsksMore
<1> HIDE DEF q, u, a, b
<1> DEFINE E == [product |-> q, units |-> u, mib |-> b, internet |-> vm.internet]
           P == [product |-> q, units |-> u, mib |-> a, internet |-> FALSE]
<1>5. CostOf(p, d, P)[c] <= CostOf(p, d, E)[c]
  BY <1>1, <1>4, MoreCostsMore
<1> HIDE DEF E, P
<1>6. CostOf(p, d, PriceJob)[c] <= CostOf(p, d, EstimateJob)[c]
  BY <1>2, <1>3, <1>5 DEF E, P
<1> QED  BY <1>6

PricingTypeInv ==
    /\ vm \in Quoted /\ Sells(prices) /\ discounts \in Discounts /\ published \in Discounts
    /\ updates \in Nat /\ since \in Nat /\ since <= updates
    /\ asking \in Requests \cup {"none"} /\ (asking = "none" => lock = "idle")
    /\ DOMAIN quotes = Requests

\* The list in force is the published one, sorted.
PublishedInv == discounts = SortedDiscounts(published)

\* What a request has of the cost is of the list in force, unless that was replaced since it
\* began.
UnderWay ==
    asking # "none" =>
        /\ lock \in {"storage", "compute", "discount", "answer"}
        /\ vm.type # "STORE" =>
              /\ job = AskedJob(asking)
              /\ asking = "price" => Stored
              /\ since = updates =>
                    /\ lock = "compute" =>
                          partial = calculate_storage_cost(prices, job.mib, Hours, job.product)
                    /\ lock = "discount" => partial = BaseCost(prices, job)
                    /\ lock = "answer" => partial = CostOf(prices, discounts, job)

\* r was answered while the list was the k-th.
AnsweredIn(r, k) == quotes[r] # <<>> /\ quotes[r].since = k /\ quotes[r].until = k

Answered ==
    \A r \in Requests : quotes[r] # <<>> =>
        /\ quotes[r].until \in 0..updates
        /\ vm.type # "STORE" =>
              /\ quotes[r].product = AskedJob(r).product
              /\ r = "price" => Stored

\* What was answered in one list are costs of that list, though it may be gone.
OfOneList ==
    vm.type # "STORE" =>
        \A k \in Nat : \E p, d :
            /\ Sells(p) /\ d \in Discounts
            /\ k = updates => p = prices /\ d = discounts
            /\ \A r \in Requests : AnsweredIn(r, k) => quotes[r].cost = CostOf(p, d, AskedJob(r))

PricingInv == PricingTypeInv /\ PublishedInv /\ UnderWay /\ Answered /\ OfOneList

LEMMA PricingStart == PricingInit => PricingInv
<1> SUFFICES ASSUME PricingInit PROVE PricingInv
  OBVIOUS
<1>1. Sells(DefaultPrices) /\ DefaultDiscounts \in Discounts
  BY PricingAssumption DEF Sells, VmProducts
<1>3. PricingTypeInv /\ PublishedInv /\ UnderWay
  BY <1>1, DefaultsAssumption DEF PricingInit, PricingTypeInv, PublishedInv, UnderWay, Requests
<1>4. \A r \in Requests : quotes[r] = <<>>
  BY DEF PricingInit
<1>5. Answered
  BY <1>4 DEF Answered
<1>6. OfOneList
  <2> SUFFICES ASSUME NEW k \in Nat
               PROVE  \E p, d : /\ Sells(p) /\ d \in Discounts
                                /\ k = updates => p = prices /\ d = discounts
                                /\ \A r \in Requests : AnsweredIn(r, k) =>
                                      quotes[r].cost = CostOf(p, d, AskedJob(r))
    BY DEF OfOneList
  <2>1. \A r \in Requests : ~ AnsweredIn(r, k)
    BY <1>4 DEF AnsweredIn
  <2>2. Sells(prices) /\ discounts \in Discounts
    BY <1>3 DEF PricingTypeInv
  <2> QED  BY <2>1, <2>2
<1> QED  BY <1>3, <1>5, <1>6 DEF PricingInv

\* A list that replaces another has all that the other had.
LEMMA ListsStay ==
    ASSUME NEW p, Sells(p), NEW a \in PriceList
    PROVE  Sells(Over(a.prices, p))
<1> DEFINE o == Over(a.prices, p)
<1>1. DOMAIN o = DOMAIN a.prices \cup DOMAIN p
      /\ \A x \in DOMAIN o : o[x] = IF x \in DOMAIN a.prices THEN a.prices[x] ELSE p[x]
  BY DEF Over
<1>2. Priced(a.prices) /\ Priced(p)
  BY PricingAssumption DEF Sells
<1> HIDE DEF o
<1>3. Priced(o)
  BY <1>1, <1>2 DEF Priced
<1> QED  BY <1>1, <1>3 DEF Sells, o

\* The vm that is asked about does not change.
LEMMA JobStays ==
    ASSUME vm' = vm PROVE (\A r : AskedJob(r)' = AskedJob(r)) /\ (Stored' <=> Stored)
BY DEF AskedJob, EstimateJob, PriceJob, Job, Stored

\* Between answers nothing is said of a list: a step that answers nothing keeps what is known.
LEMMA AnswersStay ==
    ASSUME PricingInv, PricingTypeInv', vm' = vm, quotes' = quotes,
           \/ updates' = updates /\ prices' = prices /\ discounts' = discounts
           \/ updates' = updates + 1
    PROVE  Answered' /\ OfOneList'
<1>1. updates \in Nat /\ updates' \in Nat /\ updates <= updates'
  BY DEF PricingInv, PricingTypeInv
<1>2. Answered'
  <2> SUFFICES ASSUME NEW r \in Requests, quotes[r] # <<>>
               PROVE  /\ quotes[r].until \in 0..updates'
                      /\ vm.type # "STORE" =>
                            /\ quotes[r].product = AskedJob(r)'.product
                            /\ r = "price" => Stored'
    BY DEF Answered
  <2>1. /\ quotes[r].until \in 0..updates
        /\ vm.type # "STORE" =>
              /\ quotes[r].product = AskedJob(r).product
              /\ r = "price" => Stored
    BY DEF PricingInv, Answered
  <2> QED  BY <1>1, <2>1, JobStays
<1>3. OfOneList'
  <2> SUFFICES ASSUME vm.type # "STORE", NEW k \in Nat
               PROVE  \E p, d : /\ Sells(p) /\ d \in Discounts
                                /\ k = updates' => p = prices' /\ d = discounts'
                                /\ \A r \in Requests : AnsweredIn(r, k)' =>
                                      quotes'[r].cost = CostOf(p, d, AskedJob(r)')
    BY DEF OfOneList
  <2>1. \A r \in Requests : AnsweredIn(r, k)' <=> AnsweredIn(r, k)
    BY DEF AnsweredIn
  <2>2. PICK p, d : /\ Sells(p) /\ d \in Discounts
                    /\ k = updates => p = prices /\ d = discounts
                    /\ \A r \in Requests : AnsweredIn(r, k) =>
                          quotes[r].cost = CostOf(p, d, AskedJob(r))
    BY DEF PricingInv, OfOneList
  <2>3. \A r : AskedJob(r)' = AskedJob(r)
    BY JobStays
  <2>4. CASE updates' = updates /\ prices' = prices /\ discounts' = discounts
    BY <2>1, <2>2, <2>3, <2>4
  <2>5. CASE updates' = updates + 1 /\ k # updates'
    BY <2>1, <2>2, <2>3, <2>5
  <2>6. CASE updates' = updates + 1 /\ k = updates'
    <3>1. Sells(prices') /\ discounts' \in Discounts
      BY DEF PricingTypeInv
    <3>2. \A r \in Requests : ~ AnsweredIn(r, k)
      <4> SUFFICES ASSUME NEW r \in Requests, quotes[r] # <<>>, quotes[r].until = k PROVE FALSE
        BY DEF AnsweredIn
      <4>1. quotes[r].until \in 0..updates
        BY DEF PricingInv, Answered
      <4> QED  BY <1>1, <2>6, <4>1
    <3> QED  BY <2>1, <3>1, <3>2
  <2> QED  BY <2>4, <2>5, <2>6
<1> QED  BY <1>2, <1>3

LEMMA PricingStep == PricingInv /\ [PricingNext]_pricingVars => PricingInv'
<1> SUFFICES ASSUME PricingInv, [PricingNext]_pricingVars PROVE PricingInv'
  OBVIOUS
<1>0. PricingTypeInv /\ PublishedInv /\ UnderWay /\ Answered /\ OfOneList
  BY DEF PricingInv
<1>7. CASE UNCHANGED pricingVars
  <2>1. PricingTypeInv' /\ PublishedInv'
    BY <1>0, <1>7 DEF pricingVars, serviceVars, PricingTypeInv, PublishedInv
  <2>2. UnderWay'
    BY <1>0, <1>7, JobStays DEF pricingVars, serviceVars, UnderWay
  <2> QED  BY <1>7, <2>1, <2>2, AnswersStay DEF pricingVars, serviceVars, PricingInv
<1>1. ASSUME NEW r \in Requests, NEW what, ask(r, what),
             vm.type # "STORE" => what = AskedJob(r) /\ (r = "price" => Stored)
      PROVE  PricingInv'
  <2>1. PricingTypeInv' /\ PublishedInv'
    BY <1>0, <1>1 DEF ask, serviceVars, PricingTypeInv, PublishedInv, Requests
  <2>2. UnderWay'
    <3>1. AskedJob(r)' = AskedJob(r) /\ (Stored' <=> Stored)
      BY <1>1, JobStays DEF ask
    <3> QED  BY <1>1, <3>1 DEF ask, UnderWay
  <2>3. Answered' /\ OfOneList'
    BY <1>1, <2>1, AnswersStay DEF ask, serviceVars
  <2> QED  BY <2>1, <2>2, <2>3 DEF PricingInv
<1>2. CASE price_estimate
  <2>1. PICK what : ask("estimate", what) /\ (vm.type # "STORE" => what = EstimateJob)
    BY <1>2 DEF price_estimate
  <2> QED  BY <1>1, <2>1 DEF Requests, AskedJob
<1>3. CASE get_message_price
  <2>1. PICK what : ask("price", what) /\ (vm.type # "STORE" => what = PriceJob)
    BY <1>3 DEF get_message_price
  <2>2. Stored
    BY <1>3 DEF get_message_price, Stored
  <2> QED  BY <1>1, <2>1, <2>2 DEF Requests, AskedJob
<1>4. ASSUME calculate_storage \/ calculate_compute \/ calculate_discount PROVE PricingInv'
  <2>1. PricingTypeInv' /\ PublishedInv'
    BY <1>0, <1>4 DEF calculate_storage, calculate_compute, calculate_discount, serviceVars,
                      PricingTypeInv, PublishedInv
  <2>2. asking' = asking /\ since' = since /\ updates' = updates /\ prices' = prices
        /\ discounts' = discounts /\ job' = job /\ vm' = vm /\ quotes' = quotes
    BY <1>4 DEF calculate_storage, calculate_compute, calculate_discount, serviceVars
  <2>3. UnderWay'
    <3> SUFFICES ASSUME asking # "none"
                 PROVE  /\ lock' \in {"storage", "compute", "discount", "answer"}
                        /\ vm.type # "STORE" =>
                              /\ job = AskedJob(asking)
                              /\ asking = "price" => Stored
                              /\ since = updates =>
                                    /\ lock' = "compute" => partial' =
                                          calculate_storage_cost(prices, job.mib, Hours, job.product)
                                    /\ lock' = "discount" => partial' = BaseCost(prices, job)
                                    /\ lock' = "answer" => partial' = CostOf(prices, discounts, job)
      BY <2>2, JobStays DEF UnderWay
    <3>1. /\ lock \in {"storage", "compute", "discount", "answer"}
          /\ vm.type # "STORE" => job = AskedJob(asking) /\ (asking = "price" => Stored)
      BY <1>0 DEF UnderWay
    <3>2. vm.type # "STORE" => job.product # "Storage"
      BY <3>1 DEF AskedJob, EstimateJob, PriceJob, Job
    <3>3. CASE calculate_storage
      BY <3>1, <3>2, <3>3 DEF calculate_storage
    <3>4. CASE calculate_compute
      <4>1. vm.type # "STORE" /\ since = updates =>
               partial = calculate_storage_cost(prices, job.mib, Hours, job.product)
        BY <1>0, <3>4 DEF UnderWay, calculate_compute
      <4> QED  BY <3>1, <3>4, <4>1 DEF calculate_compute, BaseCost
    <3>5. CASE calculate_discount
      <4>1. vm.type # "STORE" /\ since = updates => partial = BaseCost(prices, job)
        BY <1>0, <3>5 DEF UnderWay, calculate_discount
      <4> QED  BY <3>1, <3>5, <4>1 DEF calculate_discount, CostOf
    <3> QED  BY <1>4, <3>3, <3>4, <3>5
  <2>4. Answered' /\ OfOneList'
    BY <2>1, <2>2, AnswersStay
  <2> QED  BY <2>1, <2>3, <2>4 DEF PricingInv
<1>5. CASE answer_quote
  <2>1. PricingTypeInv' /\ PublishedInv' /\ UnderWay'
    BY <1>0, <1>5 DEF answer_quote, serviceVars, PricingTypeInv, PublishedInv, UnderWay
  <2>2. asking \in Requests
    <3>1. asking # "none"
      BY <1>5, <1>0 DEF answer_quote, PricingTypeInv
    <3> QED  BY <1>0, <3>1 DEF PricingTypeInv
  <2>3. /\ vm' = vm /\ updates' = updates /\ prices' = prices /\ discounts' = discounts
        /\ \A r \in Requests : r # asking => quotes'[r] = quotes[r]
        /\ quotes'[asking] = [cost |-> partial, product |-> job.product, since |-> since,
                              until |-> updates]
    BY <1>0, <1>5, <2>2 DEF answer_quote, serviceVars, PricingTypeInv
  <2>4. vm.type # "STORE" => /\ job = AskedJob(asking)
                             /\ asking = "price" => Stored
                             /\ since = updates => partial = CostOf(prices, discounts, job)
    BY <1>0, <1>5, <2>2 DEF answer_quote, UnderWay, Requests
  <2>5. (\A r : AskedJob(r)' = AskedJob(r)) /\ (Stored' <=> Stored)
    BY <2>3, JobStays
  <2>6. Answered'
    <3> SUFFICES ASSUME NEW r \in Requests, quotes'[r] # <<>>
                 PROVE  /\ quotes'[r].until \in 0..updates
                        /\ vm.type # "STORE" =>
                              /\ quotes'[r].product = AskedJob(r).product
                              /\ r = "price" => Stored
      BY <2>3, <2>5 DEF Answered
    <3>1. CASE r = asking
      BY <1>0, <2>3, <2>4, <3>1 DEF PricingTypeInv
    <3>2. CASE r # asking
      BY <1>0, <2>3, <3>2 DEF Answered
    <3> QED  BY <3>1, <3>2
  <2>7. OfOneList'
    <3> SUFFICES ASSUME vm.type # "STORE", NEW k \in Nat
                 PROVE  \E p, d : /\ Sells(p) /\ d \in Discounts
                                  /\ k = updates => p = prices /\ d = discounts
                                  /\ \A r \in Requests : AnsweredIn(r, k)' =>
                                        quotes'[r].cost = CostOf(p, d, AskedJob(r))
      BY <2>3, <2>5 DEF OfOneList
    <3>1. PICK p, d : /\ Sells(p) /\ d \in Discounts
                      /\ k = updates => p = prices /\ d = discounts
                      /\ \A r \in Requests : AnsweredIn(r, k) =>
                            quotes[r].cost = CostOf(p, d, AskedJob(r))
      BY <1>0 DEF OfOneList
    <3>2. ASSUME NEW r \in Requests, AnsweredIn(r, k)' PROVE quotes'[r].cost = CostOf(p, d, AskedJob(r))
      <4>1. CASE r = asking
        <5>1. k = since /\ k = updates /\ quotes'[r].cost = partial
          BY <2>3, <3>2, <4>1 DEF AnsweredIn
        <5> QED  BY <2>4, <3>1, <4>1, <5>1
      <4>2. CASE r # asking
        <5>1. AnsweredIn(r, k)
          BY <2>3, <3>2, <4>2 DEF AnsweredIn
        <5> QED  BY <2>3, <3>1, <4>2, <5>1
      <4> QED  BY <4>1, <4>2
    <3> QED  BY <3>1, <3>2
  <2> QED  BY <2>1, <2>6, <2>7 DEF PricingInv
<1>6. ASSUME NEW a \in PriceList, update_from_aggregate(a) PROVE PricingInv'
  <2>1. Sells(prices') /\ discounts' \in Discounts /\ published' \in Discounts
    <3>1. a.volume_discounts \subseteq Discounts
      BY PricingAssumption
    <3>2. Sells(Over(a.prices, prices))
      BY <1>0, ListsStay DEF PricingTypeInv
    <3>3. prices' = Over(a.prices, prices)
      BY <1>6 DEF update_from_aggregate
    <3>4. \/ UNCHANGED <<published, discounts>>
          \/ published' \in a.volume_discounts /\ discounts' = SortedDiscounts(published')
      BY <1>6 DEF update_from_aggregate
    <3>5. discounts' \in Discounts /\ published' \in Discounts
      BY <1>0, <3>1, <3>4, SortedAreDiscounts DEF PricingTypeInv
    <3> QED  BY <3>2, <3>3, <3>5
  <2>2. PricingTypeInv' /\ updates' = updates + 1 /\ since' # updates'
    BY <1>0, <1>6, <2>1 DEF update_from_aggregate, PricingTypeInv
  <2>3. PublishedInv'
    BY <1>0, <1>6 DEF update_from_aggregate, PublishedInv
  <2>4. UnderWay'
    BY <1>0, <1>6, <2>2, JobStays DEF update_from_aggregate, UnderWay
  <2>5. Answered' /\ OfOneList'
    BY <1>6, <2>2, AnswersStay DEF update_from_aggregate
  <2> QED  BY <2>2, <2>3, <2>4, <2>5 DEF PricingInv
<1> QED  BY <1>7, <1>2, <1>3, <1>4, <1>5, <1>6 DEF PricingNext

\* By device a GPU costs what it costs by the tier found for the device.
LEMMA TwoGpuCosts == GpuCostsAgree
<1> SUFFICES ASSUME NEW device \in Device, find_gpu_tier_by_device(device) # {}
             PROVE  calculate_gpu_instance_cost_by_device(vm.memory, vm.vcpus, vm.volumes, device)
                      = {calculate_gpu_instance_cost(vm.memory, vm.vcpus, vm.volumes, t) :
                            t \in find_gpu_tier_by_device(device)}
  BY DEF GpuCostsAgree
<1> QED
  BY DEF calculate_gpu_instance_cost_by_device, calculate_gpu_instance_cost

\* Two ways to one price agree, whatever lists are published and whenever: an estimate covers
\* the price that is later asked, a discount is that of the highest threshold reached, and
\* the two functions for GPUs bill the same.
THEOREM QuotesHold == PricingSpec => []QuotesAgree
<1>1. PricingInv => QuotesAgree
  <2> SUFFICES ASSUME PricingInv PROVE QuotesAgree
    OBVIOUS
  <2>0. PricingTypeInv /\ PublishedInv /\ Answered /\ OfOneList
    BY DEF PricingInv
  <2>1. EstimateCoversPrice
    <3> DEFINE e == quotes["estimate"]
               p == quotes["price"]
    <3> SUFFICES ASSUME vm.type # "STORE", e # <<>>, p # <<>>, e.product = p.product,
                        {e.since, e.until} = {p.since, p.until}, e.since = e.until,
                        NEW c \in Column
                 PROVE  e.cost[c] >= p.cost[c]
      BY DEF EstimateCoversPrice
    <3>1. "estimate" \in Requests /\ "price" \in Requests
      BY DEF Requests
    <3>2. p.since = e.until /\ p.until = e.until /\ e.since = e.until
      OBVIOUS
    <3>3. /\ e.until \in 0..updates /\ Stored
          /\ e.product = EstimateJob.product /\ p.product = PriceJob.product
      BY <2>0, <3>1 DEF Answered, AskedJob
    <3>4. e.until \in Nat
      BY <3>3
    <3>5. PICK l, d : /\ Sells(l) /\ d \in Discounts
                      /\ \A r \in Requests : AnsweredIn(r, e.until) =>
                            quotes[r].cost = CostOf(l, d, AskedJob(r))
      BY <2>0, <3>4 DEF OfOneList
    <3>6. e.cost = CostOf(l, d, EstimateJob) /\ p.cost = CostOf(l, d, PriceJob)
      BY <3>1, <3>2, <3>5 DEF AnsweredIn, AskedJob
    <3>7. vm \in Quoted /\ EstimateJob.product = PriceJob.product
      BY <2>0, <3>3 DEF PricingTypeInv
    <3> HIDE DEF e, p
    <3> QED  BY <3>3, <3>5, <3>6, <3>7, EstimateCovers
  <2>2. DiscountIsTheReached
    <3>1. published \in Discounts /\ discounts = SortedDiscounts(published)
      BY <2>0 DEF PricingTypeInv, PublishedInv
    <3>2. \A units \in Nat :
             LET reached == {i \in DOMAIN published : published[i].min_compute_units <= units}
                 best    == {i \in reached : \A j \in reached :
                                \/ published[j].min_compute_units < published[i].min_compute_units
                                \/ /\ published[j].min_compute_units = published[i].min_compute_units
                                   /\ j <= i}
             IN  get_volume_discount(discounts, units)
                     \in IF best = {} THEN {0} ELSE {published[i].discount : i \in best}
      BY <3>1, HighestReached
    <3>3. \A n : \A units \in 0..n : units \in Nat
      OBVIOUS
    <3> QED  BY <3>2, <3>3 DEF DiscountIsTheReached
  <2> QED  BY <2>1, <2>2, TwoGpuCosts DEF QuotesAgree
<1> QED  BY <1>1, PricingStart, PricingStep, PTL DEF PricingSpec

================================================================================
