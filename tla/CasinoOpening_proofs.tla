----------------------- MODULE CasinoOpening_proofs -----------------------
(***************************************************************************)
(* Proofs about the formal opening, for every set of plans, operators and  *)
(* presses, and for any number of changes, halts, damages and crashes.     *)
(***************************************************************************)
EXTENDS CasinoOpening, FiniteSetTheorems, TLAPS

-----------------------------------------------------------------------------
\* The invariant: the types, and what each table says of the others.
Past == {"applied", "post_commit_pending", "completed"}
Done == {"external_completed", "applying"} \union Past   \* Discord is done
Kept == {"backup_verified", "external_started"} \union Done  \* a backup is kept

Status == {"none", "planned", "opening_reset_acquired", "backup_started",
           "failed", "manual_review_required"} \union Kept

\* What a row notes of its failure: a state, or the work that failed.
Stage == Status \union {"backup", "backup_reverify_resume", "external"}

Row == [status : Status, actor : Operator \union {NoPlan}, stage : Stage,
        manifest : BOOLEAN, ext : BOOLEAN, funds : BOOLEAN]

Busy == {"taken", "backup", "published", "verified", "answered", "destroy",
         "finish", "reopen", "complete"}

Binding == [plan : Plan, actor : Operator]

OpeningTypes ==
  /\ casinoStatus \in {"open", "opening_reset", "manual_halt"}
  /\ owner \in Binding \union {NoOwner}
  /\ rows \in [Plan -> Row]
  /\ formal \in BOOLEAN
  /\ bundles \in [Plan -> {"none", "same", "older", "damaged"}]
  /\ world \in Plan /\ ready \in BOOLEAN /\ operator \in Operator
  /\ calls \in [Call -> [pc : Busy \union {"idle", "outside"},
                         plan : Plan \union {NoPlan}]]
  /\ turn \in Call \union {NoCall}

\* One row by itself: how far it has come tells what it has.
Sound(row) ==
  /\ row.funds => row.status \in Past \union {"manual_review_required"}
  /\ ~row.funds => row.status \notin Past
  /\ row.status \in Kept => row.manifest
  /\ row.status \in Done => row.ext

SoundRows == \A p \in Plan : Sound(rows[p])

\* The funds are in at most one row, and then the mark of the opening is set.
OneFunded ==
  /\ \A p, q \in Plan : rows[p].funds /\ rows[q].funds => p = q
  /\ formal <=> \E p \in Plan : rows[p].funds

\* A manifest in a row is the manifest of a bundle that was published.
Published ==
  /\ \A p \in Plan : rows[p].manifest => bundles[p] # "none"
  /\ \A c \in Call : calls[c].pc = "published" => bundles[calls[c].plan] # "none"

\* A press that has begun has a row.
PressesHaveRows ==
  \A c \in Call : calls[c].pc # "idle" =>
    calls[c].plan \in Plan /\ rows[calls[c].plan].status # "none"

BindingStands ==
  /\ casinoStatus = "opening_reset" <=> owner # NoOwner
  /\ owner # NoOwner => /\ rows[owner.plan].status # "none"
                        /\ rows[owner.plan].actor = owner.actor

OpeningInv == /\ OpeningTypes /\ SoundRows /\ OneFunded /\ Published
              /\ PressesHaveRows /\ BindingStands

-----------------------------------------------------------------------------
\* What every step but the commit does to the rows: nobody gains or loses the
\* funds, a row stays a row of its actor, a manifest comes from a published
\* bundle, and a row under review is left alone.
Quiet ==
  /\ rows' \in [Plan -> Row]
  /\ SoundRows'
  /\ \A q \in Plan :
       /\ rows'[q].funds = rows[q].funds
       /\ rows[q].status # "none" => /\ rows'[q].status # "none"
                                     /\ rows'[q].actor = rows[q].actor
       /\ rows'[q].manifest => rows[q].manifest \/ bundles[q] # "none"
       /\ rows[q].status = "manual_review_required" => rows'[q] = rows[q]

\* A published bundle may age or be damaged, it does not disappear.
BundlesKept ==
  /\ bundles' \in [Plan -> {"none", "same", "older", "damaged"}]
  /\ \A q \in Plan : bundles[q] # "none" => bundles'[q] # "none"

\* What every step does to the presses.
CallsKept ==
  /\ calls' \in [Call -> [pc : Busy \union {"idle", "outside"},
                          plan : Plan \union {NoPlan}]]
  /\ turn' \in Call \union {NoCall}
  /\ PressesHaveRows'
  /\ \A c \in Call : calls'[c].pc = "published" => bundles'[calls'[c].plan] # "none"

-----------------------------------------------------------------------------
\* Where a state stands on the ladder.
LEMMA Rungs ==
  /\ \A i \in 1..10 : Rank(Ladder[i]) = i
  /\ \A st : (\A i \in 1..10 : Ladder[i] # st) => Rank(st) = 0
<1>1. DOMAIN Ladder = 1..10
  BY DEF Ladder
<1>2. \A i, j \in 1..10 : Ladder[i] = Ladder[j] => i = j
  BY DEF Ladder
<1>3. ASSUME NEW i \in 1..10 PROVE Rank(Ladder[i]) = i
  BY <1>1, <1>2 DEF Rank
<1>4. ASSUME NEW st, \A i \in 1..10 : Ladder[i] # st PROVE Rank(st) = 0
  BY <1>1, <1>4 DEF Rank
<1> QED
  BY <1>3, <1>4

\* The rungs from the verified backup, and from the answer of Discord, upwards.
LEMMA ReachedMeans ==
  ASSUME NEW p \in Plan, rows[p].status \in Status
  PROVE  /\ Reached(p, "backup_verified") <=> rows[p].status \in Kept
         /\ Reached(p, "external_completed") <=> rows[p].status \in Done
<1>1. /\ Rank("planned") = 1 /\ Rank("opening_reset_acquired") = 2
      /\ Rank("backup_started") = 3 /\ Rank("backup_verified") = 4
      /\ Rank("external_started") = 5 /\ Rank("external_completed") = 6
      /\ Rank("applying") = 7 /\ Rank("applied") = 8
      /\ Rank("post_commit_pending") = 9 /\ Rank("completed") = 10
  <2>1. /\ Ladder[1] = "planned" /\ Ladder[2] = "opening_reset_acquired"
        /\ Ladder[3] = "backup_started" /\ Ladder[4] = "backup_verified"
        /\ Ladder[5] = "external_started" /\ Ladder[6] = "external_completed"
        /\ Ladder[7] = "applying" /\ Ladder[8] = "applied"
        /\ Ladder[9] = "post_commit_pending" /\ Ladder[10] = "completed"
    BY DEF Ladder
  <2> QED
    BY <2>1, Rungs
<1>2. Rank("none") = 0 /\ Rank("failed") = 0 /\ Rank("manual_review_required") = 0
  BY Rungs DEF Ladder
<1> QED
  BY <1>1, <1>2 DEF Reached, Status, Kept, Done, Past

-----------------------------------------------------------------------------
\* A transition that is lost, or that leaves its row sound, is quiet.
LEMMA CasIsQuiet ==
  ASSUME OpeningInv, NEW p \in Plan, NEW from, NEW row,
         from # "manual_review_required", Cas(p, from, row),
         rows[p].status = from =>
           /\ row \in Row /\ Sound(row)
           /\ row.funds = rows[p].funds /\ row.actor = rows[p].actor
           /\ row.status # "none"
           /\ row.manifest => rows[p].manifest \/ bundles[p] # "none"
  PROVE  Quiet
<1> USE DEF OpeningInv
<1>1. rows \in [Plan -> Row]
  BY DEF OpeningTypes
<1>2. CASE rows[p].status # from
  BY <1>1, <1>2 DEF Cas, Quiet, SoundRows
<1>3. CASE rows[p].status = from
  <2>1. rows' = [rows EXCEPT ![p] = row]
    BY <1>3 DEF Cas
  <2>2. rows' \in [Plan -> Row]
    BY <1>1, <1>3, <2>1
  <2>3. \A q \in Plan : rows'[q] = IF q = p THEN row ELSE rows[q]
    BY <1>1, <2>1
  <2>4. SoundRows'
    BY <1>3, <2>3 DEF SoundRows, Sound
  <2> QED
    BY <1>3, <2>2, <2>3, <2>4 DEF Quiet
<1> QED
  BY <1>2, <1>3

\* A row with another state is sound if what the state asks for is there.
LEMMA AdvanceIsQuiet ==
  ASSUME OpeningInv, NEW p \in Plan, NEW from, NEW to \in Status \ {"none"},
         from # "manual_review_required", Advance(p, from, to),
         to \in Past => from \in Past,
         from \in Past => to \in Past \union {"manual_review_required"},
         to \in Kept => from \in Kept,
         to \in Done => from \in Done
  PROVE  Quiet
<1> DEFINE row == [rows[p] EXCEPT !.status = to]
<1>1. rows[p] \in Row /\ Sound(rows[p])
  BY DEF OpeningInv, OpeningTypes, SoundRows
<1>2. row \in Row
  BY <1>1 DEF Row
<1>3. /\ row.status = to /\ row.funds = rows[p].funds /\ row.actor = rows[p].actor
      /\ row.manifest = rows[p].manifest /\ row.ext = rows[p].ext
  BY <1>1 DEF Row
<1>4. Cas(p, from, row)
  BY DEF Advance
<1> HIDE DEF row
<1>5. rows[p].status = from => Sound(row)
  BY <1>1, <1>3 DEF Sound
<1> QED
  BY <1>2, <1>3, <1>4, <1>5, CasIsQuiet

\* A row that has not moved the funds may fail.
LEMMA FailIsQuiet ==
  ASSUME OpeningInv, NEW p \in Plan, NEW from, NEW stage \in Stage,
         from \notin Past, from # "manual_review_required", Fail(p, from, stage)
  PROVE  Quiet
<1> DEFINE row == [rows[p] EXCEPT !.status = "failed", !.stage = stage]
<1>1. rows[p] \in Row /\ Sound(rows[p])
  BY DEF OpeningInv, OpeningTypes, SoundRows
<1>2. row \in Row
  BY <1>1 DEF Row, Status
<1>3. /\ row.status = "failed" /\ row.funds = rows[p].funds
      /\ row.actor = rows[p].actor /\ row.manifest = rows[p].manifest
  BY <1>1 DEF Row
<1>4. Cas(p, from, row)
  BY DEF Fail
<1> HIDE DEF row
<1>5. rows[p].status = from => Sound(row)
  BY <1>1, <1>3 DEF Sound, Kept, Done, Past
<1> QED
  BY <1>2, <1>3, <1>4, <1>5, CasIsQuiet

\* Any row may be given to a human.
LEMMA ReviewIsQuiet ==
  ASSUME OpeningInv, NEW p \in Plan, NEW from, from # "manual_review_required",
         SendToReview(p, from)
  PROVE  Quiet
<1>1. Advance(p, from, "manual_review_required")
  BY DEF SendToReview
<1>2. "manual_review_required" \in Status \ {"none"}
  BY DEF Status
<1>3. "manual_review_required" \notin Kept
  BY DEF Kept, Done, Past
<1> QED
  BY <1>1, <1>2, <1>3, AdvanceIsQuiet DEF Kept, Done

LEMMA SameIsQuiet == OpeningInv /\ rows' = rows => Quiet
BY DEF OpeningInv, OpeningTypes, Quiet, SoundRows

\* Writing to the database makes a backup older.
LEMMA WriteKeepsBundles ==
  ASSUME OpeningInv, Write \/ UNCHANGED bundles
  PROVE  BundlesKept
<1>1. bundles \in [Plan -> {"none", "same", "older", "damaged"}]
  BY DEF OpeningInv, OpeningTypes
<1> QED
  BY <1>1 DEF Write, BundlesKept

-----------------------------------------------------------------------------
\* A press that goes on, stops, or is there no more.
LEMMA GoKeepsCalls ==
  ASSUME OpeningInv, Quiet, BundlesKept, NEW c \in Call, calls[c].pc # "idle",
         NEW pc \in Busy \union {"outside"},
         calls' = [calls EXCEPT ![c].pc = pc], turn' \in Call \union {NoCall},
         pc = "published" => bundles'[calls[c].plan] # "none"
  PROVE  CallsKept
<1>1. calls \in [Call -> [pc : Busy \union {"idle", "outside"},
                          plan : Plan \union {NoPlan}]]
  BY DEF OpeningInv, OpeningTypes
<1>2. [calls[c] EXCEPT !.pc = pc] \in [pc : Busy \union {"idle", "outside"},
                                       plan : Plan \union {NoPlan}]
  BY <1>1
<1>3. calls' \in [Call -> [pc : Busy \union {"idle", "outside"},
                           plan : Plan \union {NoPlan}]]
  BY <1>1, <1>2
<1>4. \A d \in Call : /\ calls'[d].plan = calls[d].plan
                       /\ calls'[d].pc = IF d = c THEN pc ELSE calls[d].pc
  BY <1>1
<1>5. PressesHaveRows'
  BY <1>4 DEF OpeningInv, PressesHaveRows, Quiet
<1>6. \A d \in Call : calls'[d].pc = "published" => bundles'[calls'[d].plan] # "none"
  BY <1>4 DEF OpeningInv, PressesHaveRows, Published, BundlesKept
<1> QED
  BY <1>3, <1>5, <1>6 DEF CallsKept

LEMMA EnterKeepsCalls ==
  ASSUME OpeningInv, Quiet, BundlesKept, NEW c \in Call, NEW p \in Plan,
         NEW pc \in Busy \ {"published"}, Enter(c, p, pc),
         rows'[p].status # "none"
  PROVE  CallsKept
<1>1. calls \in [Call -> [pc : Busy \union {"idle", "outside"},
                          plan : Plan \union {NoPlan}]]
  BY DEF OpeningInv, OpeningTypes
<1>2. calls' = [calls EXCEPT ![c] = [pc |-> pc, plan |-> p]] /\ turn' = c
  BY DEF Enter
<1>3. calls' \in [Call -> [pc : Busy \union {"idle", "outside"},
                           plan : Plan \union {NoPlan}]]
  BY <1>1, <1>2
<1>4. \A d \in Call : calls'[d] = IF d = c THEN [pc |-> pc, plan |-> p] ELSE calls[d]
  BY <1>1, <1>2
<1>5. PressesHaveRows'
  BY <1>4 DEF OpeningInv, PressesHaveRows, Quiet
<1>6. \A d \in Call : calls'[d].pc = "published" => bundles'[calls'[d].plan] # "none"
  BY <1>4 DEF OpeningInv, PressesHaveRows, Published, BundlesKept
<1> QED
  BY <1>2, <1>3, <1>5, <1>6 DEF CallsKept

\* The presses go on as they were, but those that end.
LEMMA StopKeepsCalls ==
  ASSUME OpeningInv, Quiet, BundlesKept, turn' \in Call \union {NoCall},
         NEW Ended \in SUBSET Call,
         calls' = [c \in Call |-> IF c \in Ended THEN Idle ELSE calls[c]]
  PROVE  CallsKept
<1>1. calls \in [Call -> [pc : Busy \union {"idle", "outside"},
                          plan : Plan \union {NoPlan}]]
  BY DEF OpeningInv, OpeningTypes
<1>2. Idle \in [pc : Busy \union {"idle", "outside"}, plan : Plan \union {NoPlan}]
  BY DEF Idle
<1>3. calls' \in [Call -> [pc : Busy \union {"idle", "outside"},
                           plan : Plan \union {NoPlan}]]
  BY <1>1, <1>2
<1>4. PressesHaveRows'
  BY <1>1 DEF OpeningInv, PressesHaveRows, Quiet, Idle
<1>5. \A d \in Call : calls'[d].pc = "published" => bundles'[calls'[d].plan] # "none"
  BY <1>1 DEF OpeningInv, PressesHaveRows, Published, BundlesKept, Idle
<1> QED
  BY <1>3, <1>4, <1>5 DEF CallsKept

LEMMA StopOneKeepsCalls ==
  ASSUME OpeningInv, Quiet, BundlesKept, turn' \in Call \union {NoCall},
         NEW c \in Call, calls' = [calls EXCEPT ![c] = Idle]
  PROVE  CallsKept
<1>1. calls' = [d \in Call |-> IF d \in {c} THEN Idle ELSE calls[d]]
  BY DEF OpeningInv, OpeningTypes
<1> QED
  BY <1>1, StopKeepsCalls

LEMMA SameKeepsCalls ==
  ASSUME OpeningInv, Quiet, BundlesKept, UNCHANGED <<calls, turn>>
  PROVE  CallsKept
<1>1. calls' = [d \in Call |-> IF d \in {} THEN Idle ELSE calls[d]]
  BY DEF OpeningInv, OpeningTypes
<1>2. turn' \in Call \union {NoCall}
  BY DEF OpeningInv, OpeningTypes
<1>3. {} \in SUBSET Call
  OBVIOUS
<1> QED
  BY <1>1, <1>2, <1>3, StopKeepsCalls

-----------------------------------------------------------------------------
\* What every step but the commit leaves of the rest.
CasinoKept ==
  /\ casinoStatus' \in {"open", "opening_reset", "manual_halt"}
  /\ owner' \in Binding \union {NoOwner}
  /\ formal' = formal
  /\ world' \in Plan /\ ready' \in BOOLEAN /\ operator' \in Operator
  /\ BindingStands'

Calm == Quiet /\ BundlesKept /\ CallsKept /\ CasinoKept

LEMMA CalmKeepsInv == OpeningInv /\ Calm => OpeningInv'
<1> SUFFICES ASSUME OpeningInv, Calm PROVE OpeningInv'
  OBVIOUS
<1> USE DEF Calm
<1>1. OpeningTypes'
  BY DEF OpeningInv, OpeningTypes, Quiet, BundlesKept, CallsKept, CasinoKept
<1>2. OneFunded'
  BY DEF OpeningInv, OneFunded, Quiet, CasinoKept
<1>3. Published'
  BY DEF OpeningInv, Published, Quiet, BundlesKept, CallsKept
<1> QED
  BY <1>1, <1>2, <1>3 DEF OpeningInv, Quiet, CallsKept, CasinoKept

\* While the binding is not touched, its row is still its row.
LEMMA RowOnlyKeepsCasino == OpeningInv /\ Quiet /\ RowOnly => CasinoKept
<1> SUFFICES ASSUME OpeningInv, Quiet, RowOnly PROVE CasinoKept
  OBVIOUS
<1>1. owner # NoOwner => owner.plan \in Plan
  BY DEF OpeningInv, OpeningTypes, Binding
<1>2. BindingStands'
  BY <1>1 DEF OpeningInv, BindingStands, Quiet, RowOnly
<1> QED
  BY <1>2 DEF OpeningInv, OpeningTypes, RowOnly, surroundings, CasinoKept

\* A step of a press that has a row, on that row or on none, and no further.
LEMMA StaysOnItsRow ==
  ASSUME OpeningInv, Quiet, Write \/ UNCHANGED bundles, RowOnly,
         NEW c \in Call,
         \/ UNCHANGED <<calls, turn>>
         \/ Stop(c)
         \/ /\ calls[c].pc # "idle"
            /\ \E pc \in Busy \ {"published"} : Go(c, pc)
         \/ /\ calls[c].pc # "idle"
            /\ \E pc \in {"outside", "answered"} :
                 calls' = [calls EXCEPT ![c].pc = pc]
            /\ turn' \in {c, NoCall}
         \/ calls' = [calls EXCEPT ![c] = Idle] /\ UNCHANGED turn
  PROVE  Calm
<1>1. BundlesKept
  BY WriteKeepsBundles
<1>2. CasinoKept
  BY RowOnlyKeepsCasino
<1>3. turn \in Call \union {NoCall}
  BY DEF OpeningInv, OpeningTypes
<1>4. ASSUME NEW pc \in Busy \union {"outside"}, pc # "published",
             calls[c].pc # "idle", calls' = [calls EXCEPT ![c].pc = pc],
             turn' \in Call \union {NoCall}
      PROVE  CallsKept
  BY <1>1, <1>4, GoKeepsCalls
<1>5. CASE UNCHANGED <<calls, turn>>
  BY <1>1, <1>5, SameKeepsCalls, <1>2 DEF Calm
<1>6. CASE Stop(c)
  BY <1>1, <1>2, <1>6, StopOneKeepsCalls DEF Calm, Stop
<1>7. CASE calls' = [calls EXCEPT ![c] = Idle] /\ UNCHANGED turn
  BY <1>1, <1>2, <1>3, <1>7, StopOneKeepsCalls DEF Calm
<1>8. CASE calls[c].pc # "idle" /\ \E pc \in Busy \ {"published"} : Go(c, pc)
  BY <1>1, <1>2, <1>3, <1>4, <1>8 DEF Calm, Go
<1>9. CASE /\ calls[c].pc # "idle"
           /\ \E pc \in {"outside", "answered"} :
                calls' = [calls EXCEPT ![c].pc = pc]
           /\ turn' \in {c, NoCall}
  <2>1. {"outside", "answered"} \subseteq Busy \union {"outside"}
    BY DEF Busy
  <2> QED
    BY <1>1, <1>2, <1>4, <1>9, <2>1 DEF Calm
<1> QED
  BY <1>5, <1>6, <1>7, <1>8, <1>9

-----------------------------------------------------------------------------
\* The row of a press whose turn it is, or that waits for Discord.
LEMMA MineIsPlan ==
  ASSUME OpeningInv, NEW c \in Call, calls[c].pc # "idle"
  PROVE  /\ Mine(c) \in Plan /\ rows[Mine(c)] \in Row
         /\ rows[Mine(c)].status \in Status \ {"none"}
         /\ Sound(rows[Mine(c)])
<1>1. Mine(c) \in Plan /\ rows[Mine(c)].status # "none"
  BY DEF OpeningInv, PressesHaveRows, Mine
<1> QED
  BY <1>1 DEF OpeningInv, OpeningTypes, SoundRows, Row

\* The row a press takes is a new one of its own or stays as it was.
LEMMA TakenRow ==
  ASSUME OpeningInv, NEW p \in Plan, MayTake(p)
  PROVE  /\ WithRow(p) \in Row /\ Sound(WithRow(p))
         /\ WithRow(p).status # "none" /\ WithRow(p).actor = operator
         /\ WithRow(p).funds = rows[p].funds
         /\ rows[p].status # "none" => WithRow(p) = rows[p]
         /\ WithRow(p).manifest => rows[p].manifest
<1>1. rows[p] \in Row /\ Sound(rows[p]) /\ operator \in Operator
  BY DEF OpeningInv, OpeningTypes, SoundRows
<1>2. CASE rows[p].status # "none"
  BY <1>1, <1>2 DEF WithRow, MayTake
<1>3. CASE rows[p].status = "none"
  <2>1. WithRow(p) = [status |-> "planned", actor |-> operator, stage |-> "none",
                      manifest |-> FALSE, ext |-> FALSE, funds |-> FALSE]
    BY <1>3 DEF WithRow, Planned, NoRow
  <2>2. rows[p].funds = FALSE
    BY <1>1, <1>3 DEF Sound, Row, Past
  <2>3. "planned" \in Status /\ "planned" \notin Kept /\ "planned" \notin Past
        /\ "planned" \notin Done
    BY DEF Status, Kept, Done, Past
  <2>4. WithRow(p) \in Row
    BY <1>1, <2>1, <2>3 DEF Row, Stage, Status
  <2>5. Sound(WithRow(p))
    BY <2>1, <2>3 DEF Sound
  <2>6. /\ WithRow(p).status = "planned" /\ WithRow(p).actor = operator
        /\ WithRow(p).funds = FALSE /\ WithRow(p).manifest = FALSE
    BY <2>1
  <2> QED
    BY <1>3, <2>2, <2>4, <2>5, <2>6
<1> QED
  BY <1>2, <1>3

-----------------------------------------------------------------------------
\* The presses up to their row.
LEMMA ResumeIsCalm ==
  ASSUME OpeningInv, NEW c \in Call, ResumeAfterCommit(c) \/ ContinueOwnRow(c)
  PROVE  Calm
<1>1. UNCHANGED <<rows, bundles>> /\ RowOnly
  BY DEF ResumeAfterCommit, ContinueOwnRow
<1>2. Quiet /\ BundlesKept /\ CasinoKept
  BY <1>1, SameIsQuiet, WriteKeepsBundles, RowOnlyKeepsCasino
<1>3. PICK p \in Plan, pc \in {"finish", "taken"} :
        Enter(c, p, pc) /\ rows[p].status # "none"
  <2>1. CASE ResumeAfterCommit(c)
    <3>1. PICK p \in InFlight : Enter(c, p, "finish")
      BY <2>1 DEF ResumeAfterCommit
    <3> QED
      BY <3>1 DEF InFlight, OpeningInv, SoundRows, Sound, Past
  <2>2. CASE ContinueOwnRow(c)
    <3>1. owner # NoOwner
      BY <2>2 DEF ContinueOwnRow, Owned, OpeningInv, BindingStands
    <3>2. owner.plan \in Plan /\ rows[owner.plan].status # "none"
      BY <3>1 DEF OpeningInv, OpeningTypes, Binding, BindingStands
    <3> QED
      BY <2>2, <3>2 DEF ContinueOwnRow
  <2> QED
    BY <2>1, <2>2
<1>4. pc \in Busy \ {"published"} /\ rows'[p].status # "none"
  BY <1>1, <1>3 DEF Busy
<1> QED
  BY <1>2, <1>3, <1>4, EnterKeepsCalls DEF Calm

LEMMA BeginIsCalm ==
  ASSUME OpeningInv, NEW c \in Call, BeginOpening(c)
  PROVE  Calm
<1>1. /\ world \in Plan /\ MayTake(world) /\ operator \in Operator
      /\ rows \in [Plan -> Row]
  BY DEF BeginOpening, OpeningInv, OpeningTypes
<1>2. rows' = [rows EXCEPT ![world] = WithRow(world)]
  BY DEF BeginOpening
<1> HIDE DEF WithRow
<1>3. rows' \in [Plan -> Row]
  BY <1>1, <1>2, TakenRow
<1>4. \A q \in Plan : rows'[q] = IF q = world THEN WithRow(world) ELSE rows[q]
  BY <1>1, <1>2
<1>5. Quiet
  BY <1>1, <1>3, <1>4, TakenRow DEF Quiet, SoundRows, Sound, OpeningInv
<1>6. BundlesKept
  BY WriteKeepsBundles DEF BeginOpening
<1>7. CallsKept
  <2>1. CASE UNCHANGED <<calls, turn>>
    BY <1>5, <1>6, <2>1, SameKeepsCalls
  <2>2. CASE Enter(c, world, "taken")
    <3>1. "taken" \in Busy \ {"published"}
      BY DEF Busy
    <3>2. rows'[world].status # "none"
      BY <1>1, <1>4, TakenRow
    <3> QED
      BY <1>1, <1>5, <1>6, <2>2, <3>1, <3>2, EnterKeepsCalls
  <2> QED
    BY <2>1, <2>2 DEF BeginOpening
<1>8. CasinoKept
  <2>1. owner' = [plan |-> world, actor |-> operator]
    BY DEF BeginOpening
  <2>2. owner' \in Binding /\ owner' # NoOwner
    BY <1>1, <2>1, OpeningAssumption DEF Binding, NoOwner, OpeningAssumption
  <2>3. rows'[world].status # "none" /\ rows'[world].actor = operator
    BY <1>1, <1>4, TakenRow
  <2> QED
    BY <2>1, <2>2, <2>3 DEF CasinoKept, BindingStands, BeginOpening,
       OpeningInv, OpeningTypes, surroundings
<1> QED
  BY <1>5, <1>6, <1>7, <1>8 DEF Calm

LEMMA ReplanIsCalm ==
  ASSUME OpeningInv, NEW c \in Call, Replan(c)
  PROVE  Calm
<1> DEFINE old == owner.plan
           failed == FailUnlessFailed(rows[old])
<1>1. /\ world \in Plan /\ MayTake(world) /\ operator \in Operator
      /\ rows \in [Plan -> Row]
  BY DEF Replan, OpeningInv, OpeningTypes
<1>2. /\ casinoStatus = "opening_reset" /\ old \in Plan
      /\ rows[old].status # "none"
  BY DEF Replan, Owned, OpeningInv, BindingStands, OpeningTypes, Binding
<1>3. rows' = [rows EXCEPT ![old] = failed, ![world] = WithRow(world)]
  BY DEF Replan
<1>4. /\ failed \in Row /\ Sound(failed) /\ failed.status # "none"
      /\ failed.actor = rows[old].actor /\ failed.funds = rows[old].funds
      /\ failed.manifest = rows[old].manifest
      /\ rows[old].status # "manual_review_required"
  <2>1. rows[old] \in Row /\ Sound(rows[old])
    BY <1>2 DEF OpeningInv, OpeningTypes, SoundRows
  <2>2. /\ rows[old].status \notin Past
        /\ rows[old].status # "manual_review_required"
    BY DEF Replan, PreExternalResumable, BeforeExternal, Past
  <2>3. ~rows[old].funds
    BY <2>1, <2>2 DEF Sound
  <2>4. CASE rows[old].status = "failed"
    BY <2>1, <2>2, <2>4 DEF FailUnlessFailed
  <2>5. CASE rows[old].status # "failed"
    <3>1. failed = [rows[old] EXCEPT !.status = "failed", !.stage = rows[old].status]
      BY <2>5 DEF FailUnlessFailed
    <3>2. rows[old].status \in Stage
      BY <2>1 DEF Row, Stage
    <3>3. failed \in Row
      BY <2>1, <3>1, <3>2 DEF Row, Status
    <3>4. /\ failed.status = "failed" /\ failed.actor = rows[old].actor
          /\ failed.funds = rows[old].funds /\ failed.manifest = rows[old].manifest
      BY <2>1, <3>1 DEF Row
    <3>5. Sound(failed)
      BY <2>3, <3>4 DEF Sound, Kept, Done, Past
    <3> QED
      BY <2>2, <3>3, <3>4, <3>5
  <2> QED
    BY <2>4, <2>5
<1> HIDE DEF old, failed
<1>5. rows' \in [Plan -> Row]
  BY <1>1, <1>2, <1>3, <1>4, TakenRow
<1>6. \A q \in Plan : rows'[q] = IF q = world THEN WithRow(world)
                                 ELSE IF q = old THEN failed ELSE rows[q]
  BY <1>1, <1>2, <1>3
<1>7. Quiet
  BY <1>1, <1>2, <1>4, <1>5, <1>6, TakenRow
  DEF Quiet, SoundRows, Sound, OpeningInv
<1>8. BundlesKept
  BY WriteKeepsBundles DEF Replan
<1>9. CallsKept
  <2>1. CASE UNCHANGED <<calls, turn>>
    BY <1>7, <1>8, <2>1, SameKeepsCalls
  <2>2. CASE Enter(c, world, "taken")
    <3>1. "taken" \in Busy \ {"published"}
      BY DEF Busy
    <3>2. rows'[world].status # "none"
      BY <1>1, <1>6, TakenRow
    <3> QED
      BY <1>1, <1>7, <1>8, <2>2, <3>1, <3>2, EnterKeepsCalls
  <2> QED
    BY <2>1, <2>2 DEF Replan
<1>10. CasinoKept
  <2>1. owner' = [plan |-> world, actor |-> operator]
    BY DEF Replan
  <2>2. owner' \in Binding /\ owner' # NoOwner
    BY <1>1, <2>1, OpeningAssumption DEF Binding, NoOwner, OpeningAssumption
  <2>3. rows'[world].status # "none" /\ rows'[world].actor = operator
    BY <1>1, <1>6, TakenRow
  <2> QED
    BY <1>2, <2>1, <2>2, <2>3 DEF CasinoKept, BindingStands, Replan,
       OpeningInv, OpeningTypes, surroundings
<1> QED
  BY <1>7, <1>8, <1>9, <1>10 DEF Calm

LEMMA StopForReviewIsCalm ==
  ASSUME OpeningInv, NEW c \in Call, StopForReview(c)
  PROVE  Calm
<1>1. owner.plan \in Plan
  BY DEF StopForReview, Owned, OpeningInv, BindingStands, OpeningTypes, Binding
<1>2. Quiet
  BY <1>1, ReviewIsQuiet DEF StopForReview
<1> QED
  BY <1>2, StaysOnItsRow DEF StopForReview

-----------------------------------------------------------------------------
\* From the row to the backup.
LEMMA TakingIsCalm ==
  ASSUME OpeningInv, NEW c \in Call, TakeRow(c) \/ RefuseStale(c)
  PROVE  Calm
<1>1. calls[c].pc # "idle"
  BY DEF TakeRow, RefuseStale, At
<1>2. Mine(c) \in Plan
  BY <1>1, MineIsPlan
<1>3. CASE TakeRow(c)
  <2>1. "opening_reset_acquired" \in Status \ {"none"}
    BY DEF Status
  <2>2. PICK from \in {"planned", "failed"} :
          Advance(Mine(c), from, "opening_reset_acquired")
    BY <1>3 DEF TakeRow
  <2>3. Quiet
    BY <1>2, <2>1, <2>2, AdvanceIsQuiet DEF Kept, Done, Past
  <2> QED
    BY <1>3, <2>3, StaysOnItsRow DEF TakeRow
<1>4. CASE RefuseStale(c)
  <2>1. PICK st \in {"opening_reset_acquired", "backup_verified"} :
          Fail(Mine(c), st, st)
    BY <1>4 DEF RefuseStale
  <2>2. Quiet
    BY <1>2, <2>1, FailIsQuiet DEF Past, Kept, Status, Stage
  <2> QED
    BY <1>4, <2>2, StaysOnItsRow DEF RefuseStale
<1> QED
  BY <1>3, <1>4

LEMMA BackingUpIsCalm ==
  ASSUME OpeningInv, NEW c \in Call,
         BeginBackup(c) \/ BackUp(c) \/ BackupFails(c) \/ RecordBackup(c)
  PROVE  Calm
<1>1. calls[c].pc # "idle"
  BY DEF BeginBackup, BackUp, BackupFails, RecordBackup, At
<1>2. Mine(c) \in Plan /\ rows[Mine(c)] \in Row /\ Sound(rows[Mine(c)])
  BY <1>1, MineIsPlan
<1>3. {"backup", "verified"} \subseteq Busy \ {"published"}
  BY DEF Busy
<1>4. CASE BeginBackup(c)
  <2>1. "backup_started" \in Status \ {"none"}
    BY DEF Status
  <2>2. Quiet
    BY <1>2, <1>4, <2>1, AdvanceIsQuiet DEF Kept, Done, Past, BeginBackup
  <2> QED
    BY <1>1, <1>3, <1>4, <2>2, StaysOnItsRow DEF BeginBackup
<1>5. CASE BackUp(c)
  <2>1. Quiet /\ CasinoKept
    BY <1>5, SameIsQuiet, RowOnlyKeepsCasino DEF BackUp
  <2>2. bundles \in [Plan -> {"none", "same", "older", "damaged"}]
    BY DEF OpeningInv, OpeningTypes
  <2>3. bundles' = [bundles EXCEPT ![Mine(c)] = "same"]
    BY <1>5 DEF BackUp
  <2>4. BundlesKept /\ bundles'[Mine(c)] # "none"
    BY <1>2, <2>2, <2>3 DEF BundlesKept
  <2>5. "published" \in Busy \union {"outside"}
    BY DEF Busy
  <2>6. calls' = [calls EXCEPT ![c].pc = "published"] /\ turn' \in Call \union {NoCall}
    BY <1>5 DEF BackUp, Go, OpeningInv, OpeningTypes
  <2>7. CallsKept
    BY <1>1, <2>1, <2>4, <2>5, <2>6, GoKeepsCalls DEF Mine
  <2> QED
    BY <2>1, <2>4, <2>7 DEF Calm
<1>6. CASE BackupFails(c)
  <2>1. Quiet
    BY <1>2, <1>6, FailIsQuiet DEF BackupFails, Past, Stage
  <2> QED
    BY <1>6, <2>1, StaysOnItsRow DEF BackupFails
<1>7. CASE RecordBackup(c)
  <2> DEFINE row == [rows[Mine(c)] EXCEPT !.status = "backup_verified",
                                          !.manifest = TRUE]
  <2>1. row \in Row
    BY <1>2 DEF Row, Status, Kept
  <2>2. /\ row.status = "backup_verified" /\ row.manifest
        /\ row.funds = rows[Mine(c)].funds /\ row.actor = rows[Mine(c)].actor
        /\ row.ext = rows[Mine(c)].ext
    BY <1>2 DEF Row
  <2>3. Cas(Mine(c), "backup_started", row)
    BY <1>7 DEF RecordBackup
  <2>4. bundles[Mine(c)] # "none"
    BY <1>7 DEF RecordBackup, At, Mine, OpeningInv, Published
  <2> HIDE DEF row
  <2>5. rows[Mine(c)].status = "backup_started" => Sound(row)
    BY <1>2, <2>2 DEF Sound, Done, Past
  <2>6. Quiet
    BY <1>2, <2>1, <2>2, <2>3, <2>4, <2>5, CasIsQuiet
  <2> QED
    BY <1>1, <1>3, <1>7, <2>6, StaysOnItsRow DEF RecordBackup
<1> QED
  BY <1>4, <1>5, <1>6, <1>7

LEMMA ResumingIsCalm ==
  ASSUME OpeningInv, NEW c \in Call, ResumeVerified(c) \/ RejectBackup(c)
  PROVE  Calm
<1>1. calls[c].pc # "idle"
  BY DEF ResumeVerified, RejectBackup, At
<1>2. Mine(c) \in Plan /\ rows[Mine(c)].status \in Status
  BY <1>1, MineIsPlan
<1>3. "verified" \in Busy \ {"published"}
  BY DEF Busy
<1>4. CASE ResumeVerified(c)
  <2>1. Quiet
    BY <1>4, SameIsQuiet DEF ResumeVerified
  <2> QED
    BY <1>1, <1>3, <1>4, <2>1, StaysOnItsRow DEF ResumeVerified
<1>5. CASE RejectBackup(c)
  <2>1. rows[Mine(c)].status # "manual_review_required"
    BY <1>2, <1>5, ReachedMeans DEF RejectBackup, Kept, Done, Past
  <2>2. Quiet
    <3>1. CASE Fail(Mine(c), "backup_verified", "backup_reverify_resume")
      BY <1>2, <3>1, FailIsQuiet DEF Past, Stage
    <3>2. CASE SendToReview(Mine(c), rows[Mine(c)].status)
      BY <1>2, <2>1, <3>2, ReviewIsQuiet
    <3> QED
      BY <1>5, <3>1, <3>2 DEF RejectBackup
  <2> QED
    BY <1>5, <2>2, StaysOnItsRow DEF RejectBackup
<1> QED
  BY <1>4, <1>5

-----------------------------------------------------------------------------
\* From the backup to the answer of Discord.
LEMMA DiscordIsCalm ==
  ASSUME OpeningInv, NEW c \in Call,
         CallDiscord(c) \/ DiscordAnswers(c) \/ DiscordFails(c)
  PROVE  Calm
<1>1. calls[c].pc # "idle"
  BY DEF CallDiscord, DiscordAnswers, DiscordFails, At, Waiting
<1>2. Mine(c) \in Plan /\ rows[Mine(c)] \in Row /\ Sound(rows[Mine(c)])
  BY <1>1, MineIsPlan
<1>3. CASE CallDiscord(c)
  <2>1. "external_started" \in Status \ {"none"}
    BY DEF Status, Kept
  <2>2. Quiet
    BY <1>2, <1>3, <2>1, AdvanceIsQuiet DEF Kept, Done, Past, CallDiscord
  <2> QED
    BY <1>1, <1>3, <2>2, StaysOnItsRow DEF CallDiscord
<1>4. CASE DiscordAnswers(c)
  <2> DEFINE row == [rows[Mine(c)] EXCEPT !.status = "external_completed",
                                          !.ext = TRUE]
  <2>1. row \in Row
    BY <1>2 DEF Row, Status, Kept, Done
  <2>2. /\ row.status = "external_completed" /\ row.ext
        /\ row.funds = rows[Mine(c)].funds /\ row.actor = rows[Mine(c)].actor
        /\ row.manifest = rows[Mine(c)].manifest
    BY <1>2 DEF Row
  <2>3. Cas(Mine(c), "external_started", row)
    BY <1>4 DEF DiscordAnswers
  <2> HIDE DEF row
  <2>4. rows[Mine(c)].status = "external_started" => Sound(row)
    BY <1>2, <2>2 DEF Sound, Kept, Past
  <2>5. Quiet
    BY <1>2, <2>1, <2>2, <2>3, <2>4, CasIsQuiet
  <2> QED
    BY <1>1, <1>4, <2>5, StaysOnItsRow DEF DiscordAnswers
<1>5. CASE DiscordFails(c)
  <2>1. Quiet
    BY <1>2, <1>5, FailIsQuiet DEF DiscordFails, Past, Stage
  <2> QED
    BY <1>5, <2>1, StaysOnItsRow DEF DiscordFails
<1> QED
  BY <1>3, <1>4, <1>5

LEMMA GoingOnIsCalm ==
  ASSUME OpeningInv, NEW c \in Call,
         StaleAfterDiscord(c) \/ GoOn(c) \/ NothingToApply(c) \/ AlreadyDone(c)
  PROVE  Calm
<1>1. calls[c].pc # "idle"
  BY DEF StaleAfterDiscord, GoOn, NothingToApply, AlreadyDone, At
<1>2. Mine(c) \in Plan
  BY <1>1, MineIsPlan
<1>3. {"destroy", "finish"} \subseteq Busy \ {"published"}
  BY DEF Busy
<1>4. Quiet
  <2>1. CASE StaleAfterDiscord(c)
    BY <1>2, <2>1, ReviewIsQuiet DEF StaleAfterDiscord
  <2>2. CASE UNCHANGED rows
    BY <2>2, SameIsQuiet
  <2> QED
    BY <2>1, <2>2 DEF GoOn, NothingToApply, AlreadyDone
<1>5. /\ Write \/ UNCHANGED bundles
      /\ RowOnly
      /\ Stop(c) \/ \E pc \in Busy \ {"published"} : Go(c, pc)
  BY <1>3 DEF StaleAfterDiscord, GoOn, NothingToApply, AlreadyDone
<1> QED
  BY <1>1, <1>4, <1>5, StaysOnItsRow

\* Up to the commit.
LEMMA ApplyingIsCalm ==
  ASSUME OpeningInv, NEW c \in Call,
         BeginApplying(c) \/ BundleLost(c) \/ RollBack(c)
  PROVE  Calm
<1>1. calls[c].pc # "idle"
  BY DEF BeginApplying, BundleLost, RollBack, At
<1>2. Mine(c) \in Plan
  BY <1>1, MineIsPlan
<1>3. "applying" \in Status \ {"none"}
  BY DEF Status, Kept, Done
<1>4. Quiet
  <2>1. CASE BeginApplying(c)
    BY <1>2, <1>3, <2>1, AdvanceIsQuiet DEF BeginApplying, Kept, Done, Past
  <2>2. CASE BundleLost(c)
    BY <1>2, <2>2, ReviewIsQuiet DEF BundleLost
  <2>3. CASE RollBack(c)
    BY <1>2, <1>3, <2>3, FailIsQuiet DEF RollBack, Past, Stage
  <2> QED
    BY <2>1, <2>2, <2>3
<1> QED
  BY <1>4, StaysOnItsRow DEF BeginApplying, BundleLost, RollBack

\* After the commit.
LEMMA FinishingIsCalm ==
  ASSUME OpeningInv, NEW c \in Call,
         EndApplied(c) \/ CannotOpen(c) \/ Complete(c)
  PROVE  Calm
<1>1. calls[c].pc # "idle"
  BY DEF EndApplied, CannotOpen, Complete, At
<1>2. Mine(c) \in Plan
  BY <1>1, MineIsPlan
<1>3. {"post_commit_pending", "completed"} \subseteq Status \ {"none"}
  BY DEF Status, Kept, Done, Past
<1>4. Quiet
  <2>1. CASE EndApplied(c)
    BY <1>2, <1>3, <2>1, AdvanceIsQuiet DEF EndApplied, Kept, Done, Past
  <2>2. CASE CannotOpen(c)
    BY <1>2, <2>2, ReviewIsQuiet DEF CannotOpen
  <2>3. CASE Complete(c)
    BY <1>2, <1>3, <2>3, AdvanceIsQuiet DEF Complete, Kept, Done, Past
  <2> QED
    BY <2>1, <2>2, <2>3
<1>5. "reopen" \in Busy \ {"published"}
  BY DEF Busy
<1> QED
  BY <1>1, <1>4, <1>5, StaysOnItsRow DEF EndApplied, CannotOpen, Complete

LEMMA OpenCasinoIsCalm ==
  ASSUME OpeningInv, NEW c \in Call, OpenCasino(c)
  PROVE  Calm
<1>1. Quiet /\ BundlesKept
  BY SameIsQuiet, WriteKeepsBundles DEF OpenCasino
<1>2. CallsKept
  <2>1. "complete" \in Busy \union {"outside"} /\ calls[c].pc # "idle"
    BY DEF Busy, OpenCasino, At
  <2>2. calls' = [calls EXCEPT ![c].pc = "complete"] /\ turn' \in Call \union {NoCall}
    BY DEF OpenCasino, Go, OpeningInv, OpeningTypes
  <2> QED
    BY <1>1, <2>1, <2>2, GoKeepsCalls
<1>3. CasinoKept
  BY DEF OpenCasino, CasinoKept, BindingStands, OpeningInv, OpeningTypes, surroundings
<1> QED
  BY <1>1, <1>2, <1>3 DEF Calm

\* What happens around the presses.
LEMMA SurroundingsAreCalm ==
  ASSUME OpeningInv,
         \/ DataChanges \/ HaltByHand \/ ReopenByHand \/ ProcessDies
         \/ \E p \in Plan : DamageBundle(p)
         \/ UNCHANGED openingVars
  PROVE  Calm
<1> USE DEF openingVars
<1>1. Quiet
  BY SameIsQuiet DEF DataChanges, HaltByHand, ReopenByHand, ProcessDies, DamageBundle
<1>2. BundlesKept
  <2>1. CASE \E p \in Plan : DamageBundle(p)
    BY <2>1 DEF DamageBundle, BundlesKept, OpeningInv, OpeningTypes
  <2>2. CASE Write \/ UNCHANGED bundles
    BY <2>2, WriteKeepsBundles
  <2> QED
    BY <2>1, <2>2 DEF DataChanges, HaltByHand, ReopenByHand, ProcessDies
<1>3. CallsKept
  <2>1. CASE ProcessDies
    <3>1. calls' = [c \in Call |-> IF c \in Call THEN Idle ELSE calls[c]]
      BY <2>1 DEF ProcessDies
    <3>2. turn' \in Call \union {NoCall} /\ Call \in SUBSET Call
      BY <2>1 DEF ProcessDies
    <3> QED
      BY <1>1, <1>2, <3>1, <3>2, StopKeepsCalls
  <2>2. CASE UNCHANGED <<calls, turn>>
    BY <1>1, <1>2, <2>2, SameKeepsCalls
  <2> QED
    BY <2>1, <2>2 DEF DataChanges, HaltByHand, ReopenByHand, DamageBundle
<1>4. CasinoKept
  BY DEF DataChanges, HaltByHand, ReopenByHand, ProcessDies, DamageBundle,
     SetCasinoStatus, CasinoKept, BindingStands, OpeningInv, OpeningTypes, Event
<1> QED
  BY <1>1, <1>2, <1>3, <1>4 DEF Calm

\* The commit is the only step that is not.
LEMMA OnlyTheCommitIsNot ==
  ASSUME OpeningInv, [OpeningNext]_openingVars
  PROVE  Calm \/ \E c \in Call : Commit(c)
<1>1. ASSUME NEW c \in Call,
             \/ ResumeAfterCommit(c) \/ BeginOpening(c) \/ ContinueOwnRow(c)
             \/ Replan(c) \/ StopForReview(c)
             \/ TakeRow(c) \/ RefuseStale(c) \/ BeginBackup(c) \/ BackUp(c)
             \/ BackupFails(c) \/ RecordBackup(c) \/ ResumeVerified(c)
             \/ RejectBackup(c) \/ CallDiscord(c) \/ DiscordAnswers(c)
             \/ DiscordFails(c) \/ StaleAfterDiscord(c) \/ GoOn(c)
             \/ BeginApplying(c) \/ BundleLost(c) \/ RollBack(c)
             \/ NothingToApply(c) \/ EndApplied(c) \/ AlreadyDone(c)
             \/ OpenCasino(c) \/ CannotOpen(c) \/ Complete(c)
      PROVE  Calm
  BY <1>1, ResumeIsCalm, BeginIsCalm, ReplanIsCalm, StopForReviewIsCalm,
     TakingIsCalm, BackingUpIsCalm, ResumingIsCalm, DiscordIsCalm, GoingOnIsCalm,
     ApplyingIsCalm, FinishingIsCalm, OpenCasinoIsCalm
<1> QED
  BY <1>1, SurroundingsAreCalm DEF OpeningNext

-----------------------------------------------------------------------------
\* What holds when the funds move: the casino is closed and has a binding, no
\* row has them yet, and the bundle of the present data is there.
LEMMA AtTheCommit ==
  ASSUME OpeningInv, NEW c \in Call, Commit(c)
  PROVE  /\ casinoStatus = "opening_reset" /\ ready
         /\ \A p \in Plan : ~rows[p].funds
         /\ world \in Plan /\ Mine(c) = world
         /\ rows[world].status = "applying" /\ rows[world].manifest
         /\ bundles[world] \in {"same", "older"}
         /\ rows' = [rows EXCEPT ![world] =
                        [rows[world] EXCEPT !.status = "applied", !.funds = TRUE]]
<1>1. calls[c].pc # "idle"
  BY DEF Commit, At
<1>2. Mine(c) \in Plan /\ rows[Mine(c)].status = "applying"
      /\ Sound(rows[Mine(c)])
  BY <1>1, MineIsPlan DEF Commit
<1>3. /\ casinoStatus = "opening_reset" /\ ~formal /\ ready
      /\ Mine(c) = world
  BY <1>2, OpeningAssumption DEF Commit, Stale, CurrentPlan, OpeningAssumption
<1>4. rows[world].manifest
  BY <1>2, <1>3 DEF Sound, Kept, Done
<1>5. bundles[world] \in {"same", "older"}
  BY <1>2, <1>3, <1>4 DEF Commit, OpeningInv, OpeningTypes, Published
<1>6. \A p \in Plan : ~rows[p].funds
  BY <1>3 DEF OpeningInv, OneFunded
<1> QED
  BY <1>2, <1>3, <1>4, <1>5, <1>6 DEF Commit, Cas

LEMMA CommitKeepsInv ==
  ASSUME OpeningInv, NEW c \in Call, Commit(c)
  PROVE  OpeningInv'
<1> DEFINE row == [rows[world] EXCEPT !.status = "applied", !.funds = TRUE]
<1>1. /\ world \in Plan /\ rows[world] \in Row /\ Sound(rows[world])
      /\ rows \in [Plan -> Row] /\ rows[world].status = "applying"
  BY AtTheCommit DEF OpeningInv, OpeningTypes, SoundRows
<1>2. rows' = [rows EXCEPT ![world] = row]
  BY AtTheCommit
<1>3. row \in Row
  BY <1>1 DEF Row, Status, Kept, Done, Past
<1>4. /\ row.status = "applied" /\ row.funds /\ row.actor = rows[world].actor
      /\ row.manifest = rows[world].manifest /\ row.ext = rows[world].ext
  BY <1>1 DEF Row
<1> HIDE DEF row
<1>5. rows' \in [Plan -> Row]
      /\ \A q \in Plan : rows'[q] = IF q = world THEN row ELSE rows[q]
  BY <1>1, <1>2, <1>3
<1>6. Sound(row)
  BY <1>1, <1>4 DEF Sound, Past, Done, Kept
<1>7. BundlesKept
  BY WriteKeepsBundles DEF Commit
<1>8. SoundRows'
  BY <1>5, <1>6 DEF SoundRows, OpeningInv, Sound
<1>9. OneFunded'
  BY <1>1, <1>4, <1>5, AtTheCommit DEF OneFunded, Commit
<1>10. /\ calls' \in [Call -> [pc : Busy \union {"idle", "outside"},
                              plan : Plan \union {NoPlan}]]
       /\ turn' \in Call \union {NoCall}
       /\ \A d \in Call : /\ calls'[d].plan = calls[d].plan
                          /\ d # c => calls'[d].pc = calls[d].pc
       /\ calls[c].pc # "idle" /\ calls'[c].pc = "finish"
  <2>1. calls \in [Call -> [pc : Busy \union {"idle", "outside"},
                            plan : Plan \union {NoPlan}]]
    BY DEF OpeningInv, OpeningTypes
  <2>2. calls' = [calls EXCEPT ![c].pc = "finish"] /\ turn' = turn
    BY DEF Commit, Go
  <2>3. [calls[c] EXCEPT !.pc = "finish"] \in [pc : Busy \union {"idle", "outside"},
                                               plan : Plan \union {NoPlan}]
    BY <2>1 DEF Busy
  <2>4. calls' \in [Call -> [pc : Busy \union {"idle", "outside"},
                             plan : Plan \union {NoPlan}]]
    BY <2>1, <2>2, <2>3
  <2> QED
    BY <2>1, <2>2, <2>4 DEF Commit, At, OpeningInv, OpeningTypes
<1>11. PressesHaveRows'
  BY <1>1, <1>4, <1>5, <1>10 DEF OpeningInv, PressesHaveRows
<1>12. Published'
  BY <1>1, <1>4, <1>5, <1>7, <1>10
  DEF OpeningInv, Published, PressesHaveRows, BundlesKept
<1>13. BindingStands'
  <2>1. owner # NoOwner => owner.plan \in Plan
    BY DEF OpeningInv, OpeningTypes, Binding
  <2> QED
    BY <1>4, <1>5, <2>1 DEF OpeningInv, BindingStands, Commit
<1>14. OpeningTypes'
  BY <1>5, <1>7, <1>10
  DEF OpeningInv, OpeningTypes, BundlesKept, Commit, surroundings
<1> QED
  BY <1>8, <1>9, <1>11, <1>12, <1>13, <1>14 DEF OpeningInv

LEMMA InvInitially == OpeningInit => OpeningInv
<1> SUFFICES ASSUME OpeningInit PROVE OpeningInv
  OBVIOUS
<1>1. NoRow \in Row /\ Sound(NoRow) /\ NoRow.funds = FALSE /\ NoRow.manifest = FALSE
  BY DEF NoRow, Row, Sound, Status, Stage, Kept, Done, Past
<1>2. OpeningTypes
  BY <1>1 DEF OpeningInit, OpeningTypes, Idle
<1>3. SoundRows /\ OneFunded
  BY <1>1 DEF OpeningInit, SoundRows, OneFunded
<1>4. Published /\ PressesHaveRows
  BY <1>1 DEF OpeningInit, Published, PressesHaveRows, Idle
<1> QED
  BY <1>2, <1>3, <1>4 DEF OpeningInit, BindingStands, OpeningInv

THEOREM OpeningInvariant == OpeningSpec => []OpeningInv
<1>1. OpeningInv /\ [OpeningNext]_openingVars => OpeningInv'
  BY OnlyTheCommitIsNot, CalmKeepsInv, CommitKeepsInv
<1> QED
  BY InvInitially, <1>1, PTL DEF OpeningSpec

-----------------------------------------------------------------------------
\* Rows, binding and state of the casino tell the same of the one opening.
THEOREM RecordsAgreeAlways == OpeningSpec => []OpeningRecordsAgree
<1>1. OpeningInv => OpeningRecordsAgree
  <2> SUFFICES ASSUME OpeningInv PROVE OpeningRecordsAgree
    OBVIOUS
  <2> DEFINE funded == {p \in Plan : rows[p].funds}
  <2>1. Cardinality(funded) = IF formal THEN 1 ELSE 0
    <3>1. CASE formal
      <4>1. PICK p \in Plan : rows[p].funds
        BY <3>1 DEF OpeningInv, OneFunded
      <4>2. funded = {p}
        BY <4>1 DEF OpeningInv, OneFunded
      <4>3. Cardinality({p}) = 1
        BY FS_Singleton
      <4> QED
        BY <3>1, <4>2, <4>3
    <3>2. CASE ~formal
      <4>1. funded = {}
        BY <3>2 DEF OpeningInv, OneFunded
      <4> QED
        BY <3>2, <4>1, FS_EmptySet
    <3> QED
      BY <3>1, <3>2
  <2>2. FundsAppliedOnce
    BY <2>1 DEF FundsAppliedOnce, OpeningInv, SoundRows, Sound, Past
  <2>3. \A p \in Plan : rows[p].status \in Status
    BY DEF OpeningInv, OpeningTypes, Row
  <2>4. OwnerKnown
    BY <2>3, ReachedMeans DEF OwnerKnown, OpeningInv, SoundRows, Sound, BindingStands
  <2> QED
    BY <2>2, <2>4 DEF OpeningRecordsAgree
<1> QED
  BY OpeningInvariant, <1>1, PTL

\* The old data goes only into a closed casino with its archive beside it.
THEOREM ArchiveBeforeDestruction == OpeningSpec => DestroyedOnlyWithArchive
<1>1. OpeningInv /\ [OpeningNext]_openingVars
        => [formal' # formal =>
              /\ casinoStatus = "opening_reset" /\ ready
              /\ bundles[world] \in {"same", "older"}
              /\ rows'[world].funds /\ rows[world].manifest]_openingVars
  <2> SUFFICES ASSUME OpeningInv, [OpeningNext]_openingVars, formal' # formal
               PROVE  /\ casinoStatus = "opening_reset" /\ ready
                      /\ bundles[world] \in {"same", "older"}
                      /\ rows'[world].funds /\ rows[world].manifest
    OBVIOUS
  <2>1. PICK c \in Call : Commit(c)
    BY OnlyTheCommitIsNot DEF Calm, CasinoKept
  <2>2. rows \in [Plan -> Row] /\ world \in Plan
    BY DEF OpeningInv, OpeningTypes
  <2>3. rows'[world] = [rows[world] EXCEPT !.status = "applied", !.funds = TRUE]
    BY <2>1, <2>2, AtTheCommit
  <2>4. rows'[world].funds
    BY <2>2, <2>3 DEF Row
  <2> QED
    BY <2>1, <2>4, AtTheCommit
<1> QED
  BY OpeningInvariant, <1>1, PTL DEF OpeningSpec, DestroyedOnlyWithArchive

\* No press, no late answer and no restart takes a row out of manual review.
THEOREM ReviewIsForAHuman == OpeningSpec => ManualReviewStands
<1>1. OpeningInv /\ [OpeningNext]_openingVars
        => [\A p \in Plan : rows[p].status = "manual_review_required"
                              => rows'[p] = rows[p]]_openingVars
  <2> SUFFICES ASSUME OpeningInv, [OpeningNext]_openingVars, NEW p \in Plan,
                      rows[p].status = "manual_review_required"
               PROVE  rows'[p] = rows[p]
    OBVIOUS
  <2>1. CASE Calm
    BY <2>1 DEF Calm, Quiet
  <2>2. ASSUME NEW c \in Call, Commit(c) PROVE rows'[p] = rows[p]
    <3>1. rows \in [Plan -> Row] /\ p # world
      BY <2>2, AtTheCommit DEF OpeningInv, OpeningTypes
    <3> QED
      BY <2>2, <3>1, AtTheCommit
  <2> QED
    BY <2>1, <2>2, OnlyTheCommitIsNot
<1> QED
  BY OpeningInvariant, <1>1, PTL DEF OpeningSpec, ManualReviewStands
=============================================================================
