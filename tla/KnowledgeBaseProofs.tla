------------------------- MODULE KnowledgeBaseProofs -------------------------
(***************************************************************************)
(* What holds of knowledge files for any requests, users and file names:   *)
(* with handlers in any order, a removed file answers no later query and   *)
(* answers cite what their user uploaded; and as long as no request        *)
(* overlapped another, records, grants and index agree and nobody's        *)
(* material is touched but its owner's.                                    *)
(***************************************************************************)
EXTENDS KnowledgeBase, TLAPS

-----------------------------------------------------------------------------
(* The inductive invariant, first its parts that hold in every interleaving. *)

AtWork(r) == pc[r] \notin {"idle", "done"}

\* An upload that has its asset: past the step that creates it.
Past(a) == call[a] \in Calls /\ call[a].want = "upload" /\ pc[a] \notin {"idle", "read", "create"}

\* Steps at which a delete or a logout has chosen its assets, and at which it has one in hand.
Holding  == {"drop_read", "drop_store", "revoke", "remove"}
Dropping == Holding \cup {"next"}

\* A handler is at a step of what its client wants.
Placed(r) ==
  /\ pc[r] = "idle" => call[r] = None /\ reply[r] = "none"
  /\ pc[r] # "idle" => call[r] \in Calls
  /\ pc[r] # "done" => reply[r] = "none" /\ cited[r] = {}
  /\ pc[r] \in OnLoop \cup {"read"} => call[r].want = "upload"
  /\ pc[r] = "find_own" => call[r].want = "delete"
  /\ pc[r] \in {"list", "sign_out"} => call[r].want = "logout"
  /\ pc[r] = "list" => ClearOnLogout
  /\ pc[r] \in Dropping => call[r].want \in {"delete", "logout"}

\* What there is of an upload was made by one.
Made(a) ==
  /\ asset[a] # "none" \/ a \in removed => Past(a)
  /\ a \in removed => version[a] = "none"
  /\ a \in grants => reply[a] = "uploaded"
  /\ reply[a] = "uploaded" => Past(a)

\* A delete or a logout works on its own user's uploads.
Mine(r, a) == Past(a) /\ Owner(a) = Owner(r)

Drops(r) ==
  /\ pc[r] \in Dropping => \A a \in local[r].picked : Mine(r, a)
  /\ pc[r] \in Holding => local[r].item \in Requests /\ Mine(r, local[r].item)
  /\ pc[r] = "check_grant" => local[r].item \in Requests

\* The user of r uploaded n once, successfully.
UploadedOnce(r, b) == b \in Requests /\ reply[b] = "uploaded" /\ Owner(b) = Owner(r)

OwnOrOutlived(r, a) ==
  \/ Owner(a) = Owner(r)
  \/ overlap /\ \E b \in Requests : UploadedOnce(r, b) /\ FileOf(b) = FileOf(a)

MayCite(r, a) == a \notin gone[r] /\ Past(a) /\ OwnOrOutlived(r, a)

Answers(r) ==
  /\ gone[r] \subseteq removed
  /\ pc[r] = "scope_assets" =>
       \A n \in local[r].held : \E b \in Requests : UploadedOnce(r, b) /\ n \in FileOf(b)
  /\ pc[r] \in {"search", "references", "generate"} => \A a \in local[r].scope : MayCite(r, a)
  /\ \A a \in cited[r] : MayCite(r, a)

InterleavedInv ==
  /\ TypeOK
  /\ \A r \in Requests : Placed(r) /\ Made(r) /\ Drops(r) /\ Answers(r)

-----------------------------------------------------------------------------
(* What holds besides as long as no request overlapped another. *)

Kept(a) == reply[a] = "uploaded" /\ a \notin removed

InHand(a, steps) == \E r \in Requests : pc[r] \in steps /\ local[r].item = a

Alone == \A r, q \in Requests : AtWork(r) /\ AtWork(q) => r = q

\* Records, grants and index agree between them, but for the handler at work.
Agreed ==
  /\ \A a \in Requests :
       /\ asset[a] = "active" <=> Kept(a) \/ pc[a] = "add_grant"
       /\ a \in grants <=> Kept(a) /\ ~InHand(a, {"remove"})
       /\ a \in index <=> /\ Kept(a) \/ pc[a] \in {"transit", "activate", "store_active", "add_grant"}
                          /\ ~InHand(a, {"revoke", "remove"})
  /\ \A a, b \in Requests : asset[a] # "none" /\ asset[b] # "none" /\ FileOf(a) = FileOf(b) => a = b

\* What the handler at work read is still so.
Uploads(r) ==
  /\ pc[r] = "create" => \A a \in Requests : asset[a] # "none" => FileOf(a) # FileOf(r)
  /\ pc[r] \in OnLoop \ {"create"} => asset[r] # "none" /\ version[r] # "none"
  /\ pc[r] \in {"slice_store", "drop_store"} => local[r].copy = index

Chosen(r, a) == a \in local[r].picked \/ (pc[r] \in Holding /\ a = local[r].item)

Removes(r) ==
  /\ pc[r] \in Dropping => \A a \in Requests : Chosen(r, a) =>
       asset[a] # "none" /\ (a \in local[r].sliced <=> asset[a] = "active")
  /\ pc[r] \in Holding => local[r].item \notin local[r].picked
  /\ pc[r] \in {"drop_read", "drop_store"} => local[r].item \in local[r].sliced
  /\ pc[r] = "scope_assets" => \A n \in local[r].held :
       \E b \in grants : Owner(b) = Owner(r) /\ n \in FileOf(b)

\* A logout overlooks none of its user's files.
Leaves(r) ==
  /\ AtWork(r) => session[call[r].session] = "live"
  /\ pc[r] \in Dropping /\ call[r].want = "logout" => \A a \in Requests :
       asset[a] # "none" /\ Owner(a) = Owner(r) => Chosen(r, a)
  /\ pc[r] = "sign_out" /\ ClearOnLogout => \A a \in Requests :
       asset[a] # "none" => Owner(a) # Owner(r)

Attended ==
  ClearOnLogout => \A a \in Requests : asset[a] # "none" =>
    \E s \in Sessions : session[s] = "live" /\ UserOf[s] = Owner(a)

SequentialInv ==
  /\ Alone
  /\ Agreed
  /\ \A r \in Requests : Uploads(r) /\ Removes(r) /\ Leaves(r)
  /\ Attended

Inductive == InterleavedInv /\ (~overlap => SequentialInv)

-----------------------------------------------------------------------------
(***************************************************************************)
(* Facts about single definitions.                                         *)
(***************************************************************************)
LEMMA CallFacts ==
  ASSUME NEW c \in Calls
  PROVE  /\ c.want \in {"upload", "delete", "query", "logout"}
         /\ c.session \in Sessions /\ c.names \in SUBSET Names
         /\ c.want = "upload" => \E n \in Names : c.names = {n}
  BY DEF Calls

LEMMA FirstSteps ==
  ASSUME NEW want \in {"upload", "delete", "query", "logout"}
  PROVE  \/ want = "upload" /\ FirstStep(want) = "read"
         \/ want = "delete" /\ FirstStep(want) = "find_own"
         \/ want = "query" /\ FirstStep(want) = "find"
         \/ want = "logout" /\ FirstStep(want) = IF ClearOnLogout THEN "list" ELSE "sign_out"
  BY DEF FirstStep

LEMMA BlankTyped == Blank \in Local
  BY DEF Blank, Local

WorldTyped ==
  /\ session \in [Sessions -> {"new", "live", "closed"}]
  /\ asset \in [Requests -> {"none", "inactive", "active"}]
  /\ version \in [Requests -> {"none", "queued", "ready"}]
  /\ index \subseteq Requests /\ grants \subseteq Requests
  /\ removed \subseteq Requests

\* Handler r goes to step s, with answer w and holding h.
Moves(r, s, w, h) ==
  /\ pc' = [pc EXCEPT ![r] = s]
  /\ reply' = [reply EXCEPT ![r] = w]
  /\ local' = [local EXCEPT ![r] = h]
  /\ UNCHANGED <<call, gone, overlap>>

\* Where it may go, by what there is before the step.
Sound(r, s, w, h) ==
  /\ s \in Steps \ {"idle", "read"} /\ w \in Replies /\ h \in Local
  /\ s # "done" => w = "none"
  /\ s = "create" => pc[r] = "read"
  /\ w = "uploaded" => s = "done" /\ Past(r)
  /\ s \in OnLoop => call[r].want = "upload"
  /\ s # "find_own"
  /\ s # "list" /\ (s = "sign_out" => call[r].want = "logout")
  /\ s \in Dropping => call[r].want \in {"delete", "logout"} /\ \A a \in h.picked : Mine(r, a)
  /\ s \in Holding => h.item \in Requests /\ Mine(r, h.item)
  /\ s = "check_grant" => h.item \in Requests
  /\ s = "scope_assets" => \A n \in h.held : \E b \in Requests : UploadedOnce(r, b) /\ n \in FileOf(b)
  /\ s \in {"search", "references", "generate"} => \A a \in h.scope : MayCite(r, a)

\* What Go, GoWith and Answer do to the handler.
LEMMA MovesOf ==
  ASSUME TypeOK, NEW r \in Requests, UNCHANGED <<call, gone, overlap>>
  PROVE  /\ \A s : Go(r, s) => Moves(r, s, reply[r], local[r])
         /\ \A s, h : GoWith(r, s, h) => Moves(r, s, reply[r], h)
         /\ \A w : Answer(r, w) => Moves(r, "done", w, Blank)
  BY DEF TypeOK, Go, GoWith, Goto, Answer, Moves

LEMMA MovesAt ==
  ASSUME TypeOK, NEW r \in Requests, NEW s, NEW w, NEW h, Moves(r, s, w, h)
  PROVE  /\ pc'[r] = s /\ reply'[r] = w /\ local'[r] = h
         /\ \A q \in Requests : q # r => pc'[q] = pc[q] /\ reply'[q] = reply[q] /\ local'[q] = local[q]
         /\ call' = call /\ gone' = gone /\ overlap' = overlap
  BY DEF TypeOK, Moves

-----------------------------------------------------------------------------
(***************************************************************************)
(* Every interleaving.                                                     *)
(***************************************************************************)
LEMMA InterleavedInit == Init => InterleavedInv
<1> SUFFICES ASSUME Init PROVE InterleavedInv
  OBVIOUS
<1>1. TypeOK
  BY BlankTyped DEF Init, TypeOK, Steps, Replies
<1>2. ASSUME NEW r \in Requests PROVE Placed(r) /\ Made(r) /\ Drops(r) /\ Answers(r)
  BY DEF Init, Placed, Made, Drops, Answers, Past, OnLoop, Dropping, Holding
<1> QED
  BY <1>1, <1>2 DEF InterleavedInv

\* What a step does to the world, to answers and to its own handler.
LEMMA HandlerStep ==
  ASSUME InterleavedInv, NEW r \in Requests, NEW s, NEW w, NEW h,
         AtWork(r), Moves(r, s, w, h), Sound(r, s, w, h), WorldTyped',
         removed \subseteq removed',
         cited' \in [Requests -> SUBSET Requests],
         \A q \in Requests : q # r => cited'[q] = cited[q],
         cited'[r] # {} => s = "done" /\ \A a \in cited'[r] : MayCite(r, a),
         \A a \in Requests :
           /\ asset'[a] # "none" => asset[a] # "none" \/ (a = r /\ Past(r)')
           /\ a \in removed' => Past(a) /\ version'[a] = "none"
           /\ a \in grants' => a \in grants \/ (a = r /\ w = "uploaded")
  PROVE  InterleavedInv'
<1>0. TypeOK
  BY DEF InterleavedInv
<1>1. /\ pc'[r] = s /\ reply'[r] = w /\ local'[r] = h
      /\ \A p \in Requests : p # r => pc'[p] = pc[p] /\ reply'[p] = reply[p] /\ local'[p] = local[p]
      /\ call' = call /\ gone' = gone /\ overlap' = overlap
  BY <1>0, MovesAt
<1>2. TypeOK'
  BY <1>0, <1>1 DEF TypeOK, WorldTyped, Moves, Sound, AtWork
<1>3. ASSUME NEW a \in Requests, Past(a) PROVE Past(a)'
  BY <1>1, <1>3 DEF Past, Sound
<1>4. reply[r] = "none" /\ call[r] \in Calls /\ cited[r] = {}
  BY DEF InterleavedInv, Placed, AtWork
<1>5. ASSUME NEW p \in Requests, NEW b, UploadedOnce(p, b) PROVE UploadedOnce(p, b)'
  BY <1>1, <1>4, <1>5 DEF UploadedOnce, Owner
<1>6. ASSUME NEW p \in Requests, NEW a \in Requests, MayCite(p, a) PROVE MayCite(p, a)'
  <2>1. Past(a)' /\ a \notin gone'[p]
    BY <1>1, <1>3, <1>6 DEF MayCite
  <2>2. CASE Owner(a) = Owner(p)
    BY <1>1, <2>1, <2>2 DEF MayCite, OwnOrOutlived, Owner
  <2>3. CASE overlap /\ \E b \in Requests : UploadedOnce(p, b) /\ FileOf(b) = FileOf(a)
    <3>1. PICK b \in Requests : UploadedOnce(p, b) /\ FileOf(b) = FileOf(a)
      BY <2>3
    <3>2. UploadedOnce(p, b)' /\ FileOf(b)' = FileOf(a)'
      BY <1>1, <1>5, <3>1 DEF FileOf
    <3> QED
      BY <1>1, <2>1, <2>3, <3>2 DEF MayCite, OwnOrOutlived
  <2> QED
    BY <1>6, <2>2, <2>3 DEF MayCite, OwnOrOutlived
<1>7. ASSUME NEW p \in Requests PROVE Placed(p)'
  <2>1. Placed(p)
    BY DEF InterleavedInv
  <2>2. CASE p = r
    BY <1>1, <1>4, <2>2 DEF Placed, Sound, Dropping, Holding
  <2>3. CASE p # r
    BY <1>1, <2>1, <2>3 DEF Placed
  <2> QED
    BY <2>2, <2>3
<1>8. ASSUME NEW a \in Requests PROVE Made(a)'
  <2>1. Made(a)
    BY DEF InterleavedInv
  <2>2. a \in grants' => reply'[a] = "uploaded"
    BY <1>1, <1>4, <2>1 DEF Made
  <2>3. reply'[a] = "uploaded" => Past(a)'
    BY <1>1, <1>3, <2>1 DEF Made, Sound
  <2>4. asset'[a] # "none" \/ a \in removed' => Past(a)'
    BY <1>3, <2>1 DEF Made
  <2> QED
    BY <2>2, <2>3, <2>4 DEF Made
<1>9. ASSUME NEW p \in Requests, NEW a, a \in Requests, Mine(p, a) PROVE Mine(p, a)'
  BY <1>1, <1>3, <1>9 DEF Mine, Owner
<1>10. ASSUME NEW p \in Requests PROVE Drops(p)'
  <2>1. Drops(p)
    BY DEF InterleavedInv
  <2>2. local[p].picked \subseteq Requests /\ h.picked \subseteq Requests
    BY <1>0 DEF TypeOK, Sound, Local
  <2>3. CASE p = r
    BY <1>1, <1>9, <2>2, <2>3 DEF Drops, Sound
  <2>4. CASE p # r
    BY <1>1, <1>9, <2>1, <2>2, <2>4 DEF Drops
  <2> QED
    BY <2>3, <2>4
<1>11. ASSUME NEW p \in Requests PROVE Answers(p)'
  <2>1. Answers(p)
    BY DEF InterleavedInv
  <2>2. /\ local[p].scope \subseteq Requests /\ h.scope \subseteq Requests
        /\ cited[p] \subseteq Requests /\ cited'[p] \subseteq Requests
    BY <1>0 DEF TypeOK, Sound, Local
  <2>3. gone'[p] \subseteq removed'
    BY <1>1, <2>1 DEF Answers
  <2>4. ASSUME NEW a \in cited'[p] PROVE MayCite(p, a)'
    <3>1. MayCite(p, a)
      BY <2>1, <2>2 DEF Answers
    <3> QED
      BY <1>6, <2>2, <3>1
  <2>5. ASSUME pc'[p] = "scope_assets", NEW n \in local'[p].held
        PROVE  \E b \in Requests : UploadedOnce(p, b)' /\ n \in FileOf(b)'
    <3>1. PICK b \in Requests : UploadedOnce(p, b) /\ n \in FileOf(b)
      <4>1. CASE p = r
        BY <1>1, <2>5, <4>1 DEF Sound
      <4>2. CASE p # r
        BY <1>1, <2>1, <2>5, <4>2 DEF Answers
      <4> QED
        BY <4>1, <4>2
    <3> QED
      BY <1>1, <1>5, <3>1 DEF FileOf
  <2>6. ASSUME pc'[p] \in {"search", "references", "generate"}, NEW a \in local'[p].scope
        PROVE  MayCite(p, a)'
    <3>1. MayCite(p, a) /\ a \in Requests
      <4>1. CASE p = r
        BY <1>1, <2>2, <2>6, <4>1 DEF Sound
      <4>2. CASE p # r
        BY <1>1, <2>1, <2>2, <2>6, <4>2 DEF Answers
      <4> QED
        BY <4>1, <4>2
    <3> QED
      BY <1>6, <3>1
  <2> QED
    BY <2>3, <2>4, <2>5, <2>6 DEF Answers
<1> QED
  BY <1>2, <1>7, <1>8, <1>10, <1>11 DEF InterleavedInv

\* A step that leaves the world and the answers alone.
LEMMA QuietStep ==
  ASSUME InterleavedInv, NEW r \in Requests, NEW s, NEW w, NEW h,
         AtWork(r), Moves(r, s, w, h), Sound(r, s, w, h), UNCHANGED <<server, cited, history>>
  PROVE  InterleavedInv'
<1>1. /\ UNCHANGED <<session, asset, version, index, grants, cited, removed>>
      /\ TypeOK /\ WorldTyped /\ cited[r] = {}
  BY DEF server, history, InterleavedInv, TypeOK, WorldTyped, Placed, AtWork
<1>2. WorldTyped' /\ cited' \in [Requests -> SUBSET Requests] /\ removed \subseteq removed'
  BY <1>1 DEF WorldTyped, TypeOK
<1>3. ASSUME NEW a \in Requests
      PROVE  a \in removed' => Past(a) /\ version'[a] = "none"
  BY <1>1 DEF InterleavedInv, Made
<1> QED
  BY <1>1, <1>2, <1>3, HandlerStep

\* A handler may end with any answer but a success of its upload.
LEMMA AnswerSound ==
  ASSUME NEW r, NEW w \in Replies \ {"uploaded"}
  PROVE  Sound(r, "done", w, Blank)
  BY BlankTyped DEF Sound, Steps, OnLoop, Dropping, Holding

LEMMA AnswerQuietly ==
  ASSUME InterleavedInv, NEW r \in Requests, NEW w \in Replies \ {"uploaded"}, AtWork(r),
         Answer(r, w), UNCHANGED <<server, call, cited, history>>
  PROVE  InterleavedInv'
<1>1. Moves(r, "done", w, Blank)
  BY MovesOf DEF InterleavedInv, history
<1> QED
  BY <1>1, AnswerSound, QuietStep

\* What the invariant says of a handler at work.
LEMMA AtWorkFacts ==
  ASSUME InterleavedInv, NEW r \in Requests, AtWork(r)
  PROVE  /\ TypeOK /\ call[r] \in Calls /\ reply[r] = "none" /\ reply[r] \in Replies
         /\ cited[r] = {} /\ local[r] \in Local
         /\ Placed(r) /\ Made(r) /\ Drops(r) /\ Answers(r)
<1>1. /\ TypeOK /\ local[r] \in Local /\ reply[r] \in Replies
      /\ Placed(r) /\ Made(r) /\ Drops(r) /\ Answers(r)
  BY DEF InterleavedInv, TypeOK
<1> QED
  BY <1>1 DEF Placed, AtWork

LEMMA RaisesAnswers ==
  ASSUME NEW r, NEW d, Raises(r, d)
  PROVE  Answer(r, "crashed")
  BY DEF Raises

\* Of the upload's steps, those that write nothing but what the handler holds.
LEMMA UploadQuiet ==
  ASSUME InterleavedInv, NEW r \in Requests,
         UploadRead(r) \/ UploadParse(r) \/ UploadSliceRead(r) \/ UploadActivate(r)
  PROVE  InterleavedInv'
<1>1. AtWork(r) /\ UNCHANGED <<server, call, cited, history>>
  BY DEF AtWork, UploadRead, UploadParse, UploadSliceRead, UploadActivate, ReadIndex
<1>2. /\ TypeOK /\ call[r] \in Calls /\ reply[r] = "none" /\ local[r] \in Local
      /\ call[r].want = "upload"
  BY <1>1, AtWorkFacts DEF Placed, OnLoop, UploadRead, UploadParse, UploadSliceRead, UploadActivate
<1>3. CASE \E w \in {"exists", "ingest_failed", "crashed"} : Answer(r, w)
  BY <1>1, <1>3, AnswerQuietly DEF Replies
<1>4. CASE \E s \in {"create", "slice_read", "store_active"} :
             Go(r, s) /\ (s = "create" => pc[r] = "read")
  <2>1. PICK s \in {"create", "slice_read", "store_active"} :
          Go(r, s) /\ (s = "create" => pc[r] = "read")
    BY <1>4
  <2>2. Moves(r, s, reply[r], local[r])
    BY <1>1, <1>2, <2>1, MovesOf DEF history
  <2>3. Sound(r, s, reply[r], local[r])
    BY <1>2, <2>1 DEF Sound, Steps, Replies, OnLoop, Dropping, Holding
  <2> QED
    BY <1>1, <2>2, <2>3, QuietStep
<1>5. CASE UploadSliceRead(r)
  <2> DEFINE h == [local[r] EXCEPT !.copy = index]
  <2>1. GoWith(r, "slice_store", h)
    BY <1>5 DEF UploadSliceRead, ReadIndex
  <2>2. h \in Local
    BY <1>2 DEF Local, TypeOK
  <2>3. Moves(r, "slice_store", reply[r], h)
    BY <1>1, <1>2, <2>1, MovesOf DEF history
  <2>4. Sound(r, "slice_store", reply[r], h)
    BY <1>2, <2>2 DEF Sound, Steps, Replies, OnLoop, Dropping, Holding
  <2> QED
    BY <1>1, <2>3, <2>4, QuietStep
<1> QED
  BY <1>3, <1>4, <1>5 DEF UploadRead, UploadParse, UploadActivate

\* An upload between its asset and its answer.
LEMMA UploadAhead ==
  ASSUME InterleavedInv, NEW r \in Requests, pc[r] \in OnLoop,
         NEW s \in {"parse", "transit", "activate", "add_grant"}
  PROVE  /\ AtWork(r) /\ TypeOK /\ WorldTyped /\ cited[r] = {}
         /\ Sound(r, s, "none", local[r])
         /\ pc[r] # "create" => Past(r)
         /\ \A a \in Requests : a \in removed => Past(a) /\ version[a] = "none"
<1>1. AtWork(r)
  BY DEF AtWork, OnLoop
<1>2. /\ TypeOK /\ call[r] \in Calls /\ reply[r] = "none" /\ local[r] \in Local
      /\ call[r].want = "upload" /\ cited[r] = {}
  BY <1>1, AtWorkFacts DEF Placed
<1>3. Sound(r, s, "none", local[r])
  BY <1>2 DEF Sound, Steps, Replies, OnLoop, Dropping, Holding
<1>4. pc[r] # "create" => Past(r)
  BY <1>2 DEF Past, OnLoop
<1> QED
  BY <1>1, <1>2, <1>3, <1>4 DEF TypeOK, WorldTyped, InterleavedInv, Made

LEMMA UploadCreateKeeps ==
  ASSUME InterleavedInv, NEW r \in Requests, UploadCreate(r)
  PROVE  InterleavedInv'
<1>1. pc[r] = "create" /\ UNCHANGED <<session, index, grants, call, cited, history>>
      /\ asset' = [asset EXCEPT ![r] = "inactive"]
  BY DEF UploadCreate
<1>2. /\ AtWork(r) /\ TypeOK /\ WorldTyped /\ cited[r] = {} /\ call[r] \in Calls
      /\ Sound(r, "parse", "none", local[r]) /\ reply[r] = "none" /\ call[r].want = "upload"
      /\ \A a \in Requests : a \in removed => Past(a) /\ version[a] = "none"
  BY <1>1, UploadAhead, AtWorkFacts DEF OnLoop, Placed
<1>3. PICK s, h : /\ Moves(r, s, IF s = "parse" THEN "none" ELSE "crashed", h)
                  /\ Sound(r, s, IF s = "parse" THEN "none" ELSE "crashed", h)
                  /\ s \in {"parse", "done"}
                  /\ version' = version \/ version' = [version EXCEPT ![r] = "queued"]
  <2>1. CASE version' = [version EXCEPT ![r] = "queued"] /\ Go(r, "parse")
    <3>1. Moves(r, "parse", "none", local[r])
      BY <1>1, <1>2, <2>1, MovesOf DEF history
    <3> QED
      BY <1>2, <2>1, <3>1
  <2>2. CASE Raises(r, "versions") /\ UNCHANGED version
    <3>1. Moves(r, "done", "crashed", Blank)
      BY <1>1, <1>2, <2>2, RaisesAnswers, MovesOf DEF history
    <3>2. Sound(r, "done", "crashed", Blank)
      BY AnswerSound DEF Replies
    <3> QED
      BY <2>2, <3>1, <3>2
  <2> QED
    BY <2>1, <2>2 DEF UploadCreate
<1>4. Past(r)' /\ ~Past(r)
  BY <1>1, <1>2, <1>3, MovesAt DEF Past
<1>5. WorldTyped' /\ cited' \in [Requests -> SUBSET Requests] /\ removed \subseteq removed'
  BY <1>1, <1>2, <1>3 DEF WorldTyped, TypeOK, history
<1>6. ASSUME NEW a \in Requests
      PROVE  /\ asset'[a] # "none" => asset[a] # "none" \/ (a = r /\ Past(r)')
             /\ a \in removed' => Past(a) /\ version'[a] = "none"
  BY <1>1, <1>2, <1>3, <1>4 DEF WorldTyped, history
<1> QED
  BY <1>1, <1>2, <1>3, <1>5, <1>6, HandlerStep

LEMMA UploadSliceStoreKeeps ==
  ASSUME InterleavedInv, NEW r \in Requests, UploadSliceStore(r)
  PROVE  InterleavedInv'
<1>1. /\ pc[r] = "slice_store" /\ UNCHANGED <<session, asset, version, grants, call, cited, history>>
      /\ index' = local[r].copy \cup {r} /\ Go(r, "transit")
  BY DEF UploadSliceStore
<1>2. /\ AtWork(r) /\ TypeOK /\ WorldTyped /\ cited[r] = {} /\ reply[r] = "none"
      /\ Sound(r, "transit", "none", local[r]) /\ local[r] \in Local
      /\ \A a \in Requests : a \in removed => Past(a) /\ version[a] = "none"
  BY <1>1, UploadAhead, AtWorkFacts DEF OnLoop
<1>3. Moves(r, "transit", "none", local[r])
  BY <1>1, <1>2, MovesOf DEF history
<1>4. WorldTyped' /\ cited' \in [Requests -> SUBSET Requests] /\ removed \subseteq removed'
  BY <1>1, <1>2 DEF WorldTyped, TypeOK, Local, history
<1>5. ASSUME NEW a \in Requests
      PROVE  a \in removed' => Past(a) /\ version'[a] = "none"
  BY <1>1, <1>2 DEF history
<1> QED
  BY <1>1, <1>2, <1>3, <1>4, <1>5, HandlerStep

LEMMA UploadTransitKeeps ==
  ASSUME InterleavedInv, NEW r \in Requests, UploadTransit(r)
  PROVE  InterleavedInv'
<1>1. /\ pc[r] = "transit" /\ UNCHANGED <<session, asset, index, grants, call, cited, history>>
  BY DEF UploadTransit
<1>2. /\ AtWork(r) /\ TypeOK /\ WorldTyped /\ cited[r] = {} /\ reply[r] = "none"
      /\ Sound(r, "activate", "none", local[r])
      /\ \A a \in Requests : a \in removed => Past(a) /\ version[a] = "none"
  BY <1>1, UploadAhead, AtWorkFacts DEF OnLoop
<1>3. CASE version[r] = "none" /\ Answer(r, "crashed") /\ UNCHANGED version
  BY <1>1, <1>2, <1>3, AnswerQuietly DEF server, Replies
<1>4. CASE version[r] # "none" /\ version' = [version EXCEPT ![r] = "ready"] /\ Go(r, "activate")
  <2>1. Moves(r, "activate", "none", local[r])
    BY <1>1, <1>2, <1>4, MovesOf DEF history
  <2>2. WorldTyped' /\ cited' \in [Requests -> SUBSET Requests] /\ removed \subseteq removed'
    BY <1>1, <1>2, <1>4 DEF WorldTyped, TypeOK, history
  <2>3. ASSUME NEW a \in Requests
        PROVE  a \in removed' => Past(a) /\ version'[a] = "none"
    BY <1>1, <1>2, <1>4 DEF WorldTyped, history
  <2> QED
    BY <1>1, <1>2, <2>1, <2>2, <2>3, HandlerStep
<1> QED
  BY <1>3, <1>4 DEF UploadTransit

LEMMA UploadStoreActiveKeeps ==
  ASSUME InterleavedInv, NEW r \in Requests, UploadStoreActive(r)
  PROVE  InterleavedInv'
<1>1. /\ pc[r] = "store_active" /\ UNCHANGED <<session, version, index, grants, call, cited, history>>
      /\ asset' = [asset EXCEPT ![r] = "active"] /\ Go(r, "add_grant")
  BY DEF UploadStoreActive
<1>2. /\ AtWork(r) /\ TypeOK /\ WorldTyped /\ cited[r] = {} /\ reply[r] = "none"
      /\ Sound(r, "add_grant", "none", local[r]) /\ Past(r)
      /\ \A a \in Requests : a \in removed => Past(a) /\ version[a] = "none"
  BY <1>1, UploadAhead, AtWorkFacts DEF OnLoop
<1>3. Moves(r, "add_grant", "none", local[r])
  BY <1>1, <1>2, MovesOf DEF history
<1>4. WorldTyped' /\ cited' \in [Requests -> SUBSET Requests] /\ removed \subseteq removed'
  BY <1>1, <1>2 DEF WorldTyped, TypeOK, history
<1>5. Past(r)'
  BY <1>2, <1>3, MovesAt DEF Past
<1>6. ASSUME NEW a \in Requests
      PROVE  /\ asset'[a] # "none" => asset[a] # "none" \/ (a = r /\ Past(r)')
             /\ a \in removed' => Past(a) /\ version'[a] = "none"
  BY <1>1, <1>2, <1>5 DEF WorldTyped, history
<1> QED
  BY <1>1, <1>2, <1>3, <1>4, <1>6, HandlerStep

LEMMA UploadGrantKeeps ==
  ASSUME InterleavedInv, NEW r \in Requests, UploadGrant(r)
  PROVE  InterleavedInv'
<1>1. /\ pc[r] = "add_grant" /\ UNCHANGED <<session, asset, version, index, call, cited, history>>
      /\ grants' = grants \cup {r} /\ Answer(r, "uploaded")
  BY DEF UploadGrant
<1>2. /\ AtWork(r) /\ TypeOK /\ WorldTyped /\ cited[r] = {} /\ Past(r)
      /\ \A a \in Requests : a \in removed => Past(a) /\ version[a] = "none"
  BY <1>1, UploadAhead DEF OnLoop
<1>3. Moves(r, "done", "uploaded", Blank)
  BY <1>1, <1>2, MovesOf DEF history
<1>4. Sound(r, "done", "uploaded", Blank)
  BY <1>2, BlankTyped DEF Sound, Steps, Replies, OnLoop, Dropping, Holding
<1>5. WorldTyped' /\ cited' \in [Requests -> SUBSET Requests] /\ removed \subseteq removed'
  BY <1>1, <1>2 DEF WorldTyped, TypeOK, history
<1>6. ASSUME NEW a \in Requests
      PROVE  a \in removed' => Past(a) /\ version'[a] = "none"
  BY <1>1, <1>2 DEF history
<1> QED
  BY <1>1, <1>2, <1>3, <1>4, <1>5, <1>6, HandlerStep

\* A delete or a logout chooses assets of its user.
LEMMA PickMoves ==
  ASSUME InterleavedInv, NEW r \in Requests, NEW some \in SUBSET Requests, Pick(r, some),
         pc[r] \in {"find_own", "list"}, UNCHANGED <<server, call, cited, history>>,
         \A a \in some : asset[a] # "none" /\ Owner(a) = Owner(r)
  PROVE  InterleavedInv'
<1> DEFINE h == [local[r] EXCEPT !.picked = some, !.sliced = {a \in some : asset[a] = "active"}]
<1>1. /\ AtWork(r) /\ TypeOK /\ local[r] \in Local /\ reply[r] = "none"
      /\ call[r].want \in {"delete", "logout"}
  BY AtWorkFacts DEF AtWork, Placed
<1>2. h \in Local /\ h.picked = some
  BY <1>1 DEF Local
<1>3. Moves(r, "next", reply[r], h)
  BY <1>1, MovesOf DEF Pick, history
<1>4. \A a \in some : Mine(r, a)
  BY DEF InterleavedInv, Made, Mine
<1> HIDE DEF h
<1>5. Sound(r, "next", reply[r], h)
  BY <1>1, <1>2, <1>4 DEF Sound, Steps, Replies, OnLoop, Dropping, Holding
<1> QED
  BY <1>1, <1>3, <1>5, QuietStep

LEMMA DeleteFindKeeps ==
  ASSUME InterleavedInv, NEW r \in Requests, DeleteFind(r)
  PROVE  InterleavedInv'
<1>1. pc[r] = "find_own" /\ AtWork(r) /\ UNCHANGED <<server, call, cited, history>>
  BY DEF DeleteFind, AtWork
<1>2. CASE Answer(r, "missing") \/ Answer(r, "denied")
  BY <1>1, <1>2, AnswerQuietly DEF Replies
<1>3. CASE (\A a \in AssetsAt(FileOf(r)) : Owner(a) = Owner(r)) /\ Pick(r, AssetsAt(FileOf(r)))
  <2>1. AssetsAt(FileOf(r)) \in SUBSET Requests /\ \A a \in AssetsAt(FileOf(r)) : asset[a] # "none"
    BY DEF AssetsAt
  <2> QED
    BY <1>1, <1>3, <2>1, PickMoves
<1> QED
  BY <1>2, <1>3 DEF DeleteFind

LEMMA LogoutListKeeps ==
  ASSUME InterleavedInv, NEW r \in Requests, LogoutList(r)
  PROVE  InterleavedInv'
<1> DEFINE some == {a \in AssetsAt(Names) : Owner(a) = Owner(r)}
<1>1. pc[r] = "list" /\ UNCHANGED <<server, call, cited, history>> /\ Pick(r, some)
  BY DEF LogoutList
<1>2. some \in SUBSET Requests /\ \A a \in some : asset[a] # "none" /\ Owner(a) = Owner(r)
  BY DEF AssetsAt
<1> HIDE DEF some
<1> QED
  BY <1>1, <1>2, PickMoves

LEMMA DropNextKeeps ==
  ASSUME InterleavedInv, NEW r \in Requests, DropNext(r)
  PROVE  InterleavedInv'
<1>1. pc[r] = "next" /\ AtWork(r) /\ UNCHANGED <<server, call, cited, history>>
  BY DEF DropNext, AtWork
<1>2. /\ TypeOK /\ local[r] \in Local /\ reply[r] = "none" /\ call[r].want \in {"delete", "logout"}
      /\ \A a \in local[r].picked : Mine(r, a)
      /\ local[r].picked \subseteq Requests
  BY <1>1, AtWorkFacts DEF Placed, Drops, Dropping, Local
<1>3. CASE Answer(r, "deleted")
  BY <1>1, <1>3, AnswerQuietly DEF Replies
<1>4. CASE call[r].want = "logout" /\ Go(r, "sign_out")
  <2>1. Moves(r, "sign_out", reply[r], local[r])
    BY <1>1, <1>2, <1>4, MovesOf DEF history
  <2>2. Sound(r, "sign_out", reply[r], local[r])
    BY <1>2, <1>4 DEF Sound, Steps, Replies, OnLoop, Dropping, Holding
  <2> QED
    BY <1>1, <2>1, <2>2, QuietStep
<1>5. ASSUME NEW a \in local[r].picked,
             GoWith(r, IF a \in local[r].sliced THEN "drop_read" ELSE "revoke",
                    [local[r] EXCEPT !.picked = local[r].picked \ {a}, !.item = a])
      PROVE  InterleavedInv'
  <2> DEFINE h == [local[r] EXCEPT !.picked = local[r].picked \ {a}, !.item = a]
             s == IF a \in local[r].sliced THEN "drop_read" ELSE "revoke"
  <2>1. h \in Local /\ h.picked = local[r].picked \ {a} /\ h.item = a /\ s \in {"drop_read", "revoke"}
    BY <1>2 DEF Local
  <2>2. Moves(r, s, reply[r], h)
    BY <1>1, <1>2, <1>5, MovesOf DEF history
  <2> HIDE DEF h, s
  <2>3. Sound(r, s, reply[r], h)
    BY <1>2, <2>1 DEF Sound, Steps, Replies, OnLoop, Dropping, Holding
  <2> QED
    BY <1>1, <2>2, <2>3, QuietStep
<1> QED
  BY <1>3, <1>4, <1>5 DEF DropNext

\* A handler with an asset in hand.
LEMMA InHandFacts ==
  ASSUME InterleavedInv, NEW r \in Requests, pc[r] \in Holding,
         NEW s \in {"drop_store", "revoke", "remove", "next"}
  PROVE  /\ AtWork(r) /\ TypeOK /\ WorldTyped /\ cited[r] = {} /\ reply[r] = "none"
         /\ local[r] \in Local /\ Sound(r, s, "none", local[r])
         /\ local[r].item \in Requests /\ Mine(r, local[r].item)
         /\ \A a \in Requests : a \in removed => Past(a) /\ version[a] = "none"
<1>1. AtWork(r)
  BY DEF AtWork, Holding
<1>2. /\ TypeOK /\ WorldTyped /\ reply[r] = "none" /\ local[r] \in Local /\ cited[r] = {}
      /\ call[r].want \in {"delete", "logout"}
      /\ local[r].item \in Requests /\ Mine(r, local[r].item)
      /\ \A a \in local[r].picked : Mine(r, a)
  BY <1>1, AtWorkFacts DEF Placed, Drops, Dropping, TypeOK, WorldTyped
<1>3. Sound(r, s, "none", local[r])
  BY <1>2 DEF Sound, Steps, Replies, OnLoop, Dropping, Holding
<1> QED
  BY <1>1, <1>2, <1>3 DEF InterleavedInv, Made

LEMMA DropSliceKeeps ==
  ASSUME InterleavedInv, NEW r \in Requests, DropRead(r) \/ DropStore(r)
  PROVE  InterleavedInv'
<1>1. CASE DropRead(r)
  <2> DEFINE h == [local[r] EXCEPT !.copy = index]
  <2>1. pc[r] = "drop_read" /\ GoWith(r, "drop_store", h) /\ UNCHANGED <<server, call, cited, history>>
    BY <1>1 DEF DropRead, ReadIndex
  <2>2. /\ AtWork(r) /\ TypeOK /\ reply[r] = "none" /\ local[r] \in Local
        /\ Sound(r, "drop_store", "none", local[r])
    BY <2>1, InHandFacts DEF Holding
  <2>3. h \in Local /\ h.picked = local[r].picked /\ h.item = local[r].item
    BY <2>2 DEF Local, TypeOK
  <2>4. Moves(r, "drop_store", reply[r], h)
    BY <2>1, <2>2, MovesOf DEF history
  <2> HIDE DEF h
  <2>5. Sound(r, "drop_store", reply[r], h)
    BY <2>2, <2>3 DEF Sound, Dropping, Holding
  <2> QED
    BY <2>1, <2>2, <2>4, <2>5, QuietStep
<1>2. CASE DropStore(r)
  <2>1. /\ pc[r] = "drop_store" /\ index' = local[r].copy \ {local[r].item} /\ Go(r, "revoke")
        /\ UNCHANGED <<session, asset, version, grants, call, cited, history>>
    BY <1>2 DEF DropStore
  <2>2. /\ AtWork(r) /\ TypeOK /\ WorldTyped /\ reply[r] = "none" /\ local[r] \in Local
        /\ Sound(r, "revoke", "none", local[r]) /\ cited[r] = {}
        /\ \A a \in Requests : a \in removed => Past(a) /\ version[a] = "none"
    BY <2>1, InHandFacts DEF Holding
  <2>3. Moves(r, "revoke", "none", local[r])
    BY <2>1, <2>2, MovesOf DEF history
  <2>4. WorldTyped' /\ cited' \in [Requests -> SUBSET Requests] /\ removed \subseteq removed'
    BY <2>1, <2>2 DEF WorldTyped, TypeOK, Local, history
  <2> QED
    BY <2>1, <2>2, <2>3, <2>4, HandlerStep DEF history
<1> QED
  BY <1>1, <1>2

LEMMA DropGrantsKeeps ==
  ASSUME InterleavedInv, NEW r \in Requests, DropGrants(r)
  PROVE  InterleavedInv'
<1>1. /\ pc[r] = "revoke" /\ grants' = grants \ Covering(r) /\ Go(r, "remove")
      /\ UNCHANGED <<session, asset, version, index, call, cited, history>>
  BY DEF DropGrants
<1>2. /\ AtWork(r) /\ TypeOK /\ WorldTyped /\ reply[r] = "none"
      /\ Sound(r, "remove", "none", local[r]) /\ cited[r] = {}
      /\ \A a \in Requests : a \in removed => Past(a) /\ version[a] = "none"
  BY <1>1, InHandFacts DEF Holding
<1>3. Moves(r, "remove", "none", local[r])
  BY <1>1, <1>2, MovesOf DEF history
<1>4. WorldTyped' /\ cited' \in [Requests -> SUBSET Requests] /\ removed \subseteq removed'
  BY <1>1, <1>2 DEF WorldTyped, TypeOK, history
<1> QED
  BY <1>1, <1>2, <1>3, <1>4, HandlerStep DEF history

LEMMA DropAssetKeeps ==
  ASSUME InterleavedInv, NEW r \in Requests, DropAsset(r)
  PROVE  InterleavedInv'
<1>1. PICK a : a = local[r].item
  OBVIOUS
<1>2. /\ pc[r] = "remove" /\ asset' = [asset EXCEPT ![a] = "none"]
      /\ UNCHANGED <<session, index, grants, call, cited, gone, overlap>>
  BY <1>1 DEF DropAsset
<1>3. /\ AtWork(r) /\ TypeOK /\ WorldTyped /\ reply[r] = "none" /\ cited[r] = {}
      /\ Sound(r, "next", "none", local[r]) /\ a \in Requests /\ Past(a)
      /\ \A b \in Requests : b \in removed => Past(b) /\ version[b] = "none"
  BY <1>1, <1>2, InHandFacts DEF Holding, Mine
<1>4. PICK s \in {"next", "done"}, w \in {"none", "crashed"}, h \in {local[r], Blank} :
        /\ Moves(r, s, w, h) /\ Sound(r, s, w, h)
        /\ \/ version' = version /\ removed' = removed
           \/ version' = [version EXCEPT ![a] = "none"] /\ removed' = removed \cup {a}
  <2>1. CASE Go(r, "next") /\ (\/ UNCHANGED <<version, removed>>
                               \/ /\ version' = [version EXCEPT ![a] = "none"]
                                  /\ removed' = removed \cup {a})
    <3>1. Moves(r, "next", "none", local[r])
      BY <1>2, <1>3, <2>1, MovesOf
    <3> QED
      BY <1>3, <2>1, <3>1
  <2>2. CASE Raises(r, "versions") /\ UNCHANGED <<version, removed>>
    <3>1. Moves(r, "done", "crashed", Blank)
      BY <1>2, <1>3, <2>2, RaisesAnswers, MovesOf
    <3>2. Sound(r, "done", "crashed", Blank)
      BY AnswerSound DEF Replies
    <3> QED
      BY <2>2, <3>1, <3>2
  <2> QED
    BY <1>1, <2>1, <2>2 DEF DropAsset
<1>5. WorldTyped' /\ cited' \in [Requests -> SUBSET Requests] /\ removed \subseteq removed'
  BY <1>2, <1>3, <1>4 DEF WorldTyped, TypeOK
<1>6. ASSUME NEW b \in Requests
      PROVE  /\ asset'[b] # "none" => asset[b] # "none"
             /\ b \in removed' => Past(b) /\ version'[b] = "none"
  BY <1>2, <1>3, <1>4 DEF WorldTyped
<1> QED
  BY <1>2, <1>3, <1>4, <1>5, <1>6, HandlerStep

LEMMA SignOutKeeps ==
  ASSUME InterleavedInv, NEW r \in Requests, SignOut(r)
  PROVE  InterleavedInv'
<1>1. /\ pc[r] = "sign_out" /\ session' = [session EXCEPT ![call[r].session] = "closed"]
      /\ Answer(r, "signed_out")
      /\ UNCHANGED <<asset, version, index, grants, call, cited, history>>
  BY DEF SignOut
<1>2. AtWork(r) /\ TypeOK /\ WorldTyped /\ cited[r] = {}
  BY <1>1, AtWorkFacts DEF AtWork, TypeOK, WorldTyped
<1>3. Moves(r, "done", "signed_out", Blank) /\ Sound(r, "done", "signed_out", Blank)
  BY <1>1, <1>2, MovesOf, AnswerSound DEF history, Replies
<1>4. WorldTyped' /\ cited' \in [Requests -> SUBSET Requests] /\ removed \subseteq removed'
  BY <1>1, <1>2 DEF WorldTyped, TypeOK, history
<1>5. ASSUME NEW a \in Requests
      PROVE  a \in removed' => Past(a) /\ version'[a] = "none"
  BY <1>1 DEF InterleavedInv, Made, history
<1> QED
  BY <1>1, <1>2, <1>3, <1>4, <1>5, HandlerStep

\* A query's step to s, holding h.
LEMMA QueryMoves ==
  ASSUME InterleavedInv, NEW r \in Requests, AtWork(r), NEW s, NEW h, GoWith(r, s, h),
         s \in {"find", "authorize", "check_grant", "scope_grants", "scope_assets", "search",
                "references", "generate"},
         h \in Local, UNCHANGED <<server, call, cited, history>>,
         s = "check_grant" => h.item \in Requests,
         s = "scope_assets" => \A n \in h.held : \E b \in Requests : UploadedOnce(r, b) /\ n \in FileOf(b),
         s \in {"search", "references", "generate"} => \A a \in h.scope : MayCite(r, a)
  PROVE  InterleavedInv'
<1>1. TypeOK /\ reply[r] = "none"
  BY AtWorkFacts
<1>2. Moves(r, s, reply[r], h)
  BY <1>1, MovesOf DEF history
<1>3. Sound(r, s, reply[r], h)
  BY <1>1 DEF Sound, Steps, Replies, OnLoop, Dropping, Holding
<1> QED
  BY <1>2, <1>3, QuietStep

LEMMA QueryFindKeeps ==
  ASSUME InterleavedInv, NEW r \in Requests, QueryFind(r)
  PROVE  InterleavedInv'
<1>1. pc[r] = "find" /\ AtWork(r) /\ UNCHANGED <<server, call, cited, history>>
  BY DEF QueryFind, AtWork
<1>2. local[r] \in Local
  BY <1>1, AtWorkFacts
<1>3. CASE Answer(r, "missing")
  BY <1>1, <1>3, AnswerQuietly DEF Replies
<1>4. ASSUME NEW n,
             GoWith(r, IF local[r].names = {n} THEN "authorize" ELSE "find",
                    [local[r] EXCEPT !.names = @ \ {n}, !.picked = @ \cup AssetsAt({n})])
      PROVE  InterleavedInv'
  <2> DEFINE h == [local[r] EXCEPT !.names = @ \ {n}, !.picked = @ \cup AssetsAt({n})]
  <2>1. AssetsAt({n}) \subseteq Requests
    BY DEF AssetsAt
  <2>2. h \in Local
    BY <1>2, <2>1 DEF Local
  <2> HIDE DEF h
  <2>3. CASE GoWith(r, "authorize", h)
    BY <1>1, <2>2, <2>3, QueryMoves
  <2>4. CASE GoWith(r, "find", h)
    BY <1>1, <2>2, <2>4, QueryMoves
  <2> QED
    BY <1>4, <2>3, <2>4 DEF h
<1> QED
  BY <1>3, <1>4 DEF QueryFind

LEMMA QueryAuthorizeKeeps ==
  ASSUME InterleavedInv, NEW r \in Requests, QueryAuthorize(r)
  PROVE  InterleavedInv'
<1>1. pc[r] = "authorize" /\ AtWork(r) /\ UNCHANGED <<server, call, cited, history>>
  BY DEF QueryAuthorize, AtWork
<1>2. /\ TypeOK /\ local[r] \in Local /\ local[r].picked \subseteq Requests
      /\ reply[r] = "none"
  BY <1>1, AtWorkFacts DEF Local
<1>3. CASE Answer(r, "denied")
  BY <1>1, <1>3, AnswerQuietly DEF Replies
<1>4. CASE Go(r, "scope_grants")
  <2>1. Moves(r, "scope_grants", reply[r], local[r])
    BY <1>1, <1>2, <1>4, MovesOf DEF history
  <2>2. Sound(r, "scope_grants", reply[r], local[r])
    BY <1>2 DEF Sound, Steps, Replies, OnLoop, Dropping, Holding
  <2> QED
    BY <1>1, <2>1, <2>2, QuietStep
<1>5. ASSUME NEW a \in local[r].picked,
             GoWith(r, "check_grant", [local[r] EXCEPT !.picked = @ \ {a}, !.item = a])
      PROVE  InterleavedInv'
  <2> DEFINE h == [local[r] EXCEPT !.picked = @ \ {a}, !.item = a]
  <2>1. h \in Local /\ h.item \in Requests
    BY <1>2 DEF Local
  <2> HIDE DEF h
  <2> QED
    BY <1>1, <1>5, <2>1, QueryMoves DEF h
<1> QED
  BY <1>3, <1>4, <1>5 DEF QueryAuthorize

LEMMA QueryGrantKeeps ==
  ASSUME InterleavedInv, NEW r \in Requests, QueryCheckGrant(r) \/ QueryScopeGrants(r)
  PROVE  InterleavedInv'
<1>1. CASE QueryCheckGrant(r)
  <2> DEFINE h == [local[r] EXCEPT !.scope = @ \cup {local[r].item}]
  <2>1. pc[r] = "check_grant" /\ AtWork(r) /\ UNCHANGED <<server, call, cited, history>>
    BY <1>1 DEF QueryCheckGrant, AtWork
  <2>2. local[r] \in Local /\ local[r].item \in Requests
    BY <2>1, AtWorkFacts DEF Drops
  <2>3. h \in Local
    BY <2>2 DEF Local
  <2>4. CASE Answer(r, "denied")
    BY <2>1, <2>4, AnswerQuietly DEF Replies
  <2> HIDE DEF h
  <2>5. CASE GoWith(r, "authorize", h)
    BY <2>1, <2>3, <2>5, QueryMoves
  <2> QED
    BY <1>1, <2>4, <2>5 DEF QueryCheckGrant, h
<1>2. CASE QueryScopeGrants(r)
  <2> DEFINE h == [local[r] EXCEPT !.held = Granted(Owner(r))]
  <2>1. /\ pc[r] = "scope_grants" /\ AtWork(r) /\ UNCHANGED <<server, call, cited, history>>
        /\ GoWith(r, "scope_assets", h)
    BY <1>2 DEF QueryScopeGrants, AtWork
  <2>2. local[r] \in Local /\ TypeOK
    BY <2>1, AtWorkFacts
  <2>3. ASSUME NEW n \in Granted(Owner(r))
        PROVE  n \in Names /\ \E b \in Requests : UploadedOnce(r, b) /\ n \in FileOf(b)
    <3>1. PICK g \in grants : Owner(g) = Owner(r) /\ n \in FileOf(g)
      BY <2>3 DEF Granted
    <3>2. g \in Requests
      BY <2>2 DEF TypeOK
    <3>3. reply[g] = "uploaded" /\ Past(g)
      BY <3>2 DEF InterleavedInv, Made
    <3>4. FileOf(g) \subseteq Names
      BY <3>3, CallFacts DEF Past, FileOf
    <3> QED
      BY <3>1, <3>2, <3>3, <3>4 DEF UploadedOnce
  <2>4. h \in Local /\ h.held = Granted(Owner(r))
    BY <2>2, <2>3 DEF Local
  <2> HIDE DEF h
  <2> QED
    BY <2>1, <2>3, <2>4, QueryMoves
<1> QED
  BY <1>1, <1>2

\* What a scope admits was not removed before the query came and is its user's, or has
\* the name of what its user uploaded.
LEMMA ScopeIsCitable ==
  ASSUME Inductive, NEW r \in Requests, pc[r] = "scope_assets", NEW a \in Requests, Serving(a),
         FileOf(a) \subseteq local[r].held
  PROVE  MayCite(r, a)
<1>1. (Made(a) /\ Answers(r) /\ Removes(r)) \/ (overlap /\ Made(a) /\ Answers(r))
  BY DEF Inductive, InterleavedInv, SequentialInv
<1>2. Past(a) /\ a \notin gone[r]
  BY <1>1 DEF Serving, Made, Answers
<1>3. PICK n : FileOf(a) = {n} /\ n \in local[r].held
  BY <1>2, CallFacts DEF Past, FileOf
<1>4. ASSUME NEW b \in Requests, reply[b] = "uploaded", n \in FileOf(b)
      PROVE  FileOf(b) = FileOf(a)
  <2>1. Past(b)
    BY <1>4 DEF Inductive, InterleavedInv, Made
  <2>2. PICK m : FileOf(b) = {m}
    BY <2>1, CallFacts DEF Past, FileOf
  <2> QED
    BY <1>3, <1>4, <2>2
<1>5. CASE overlap
  <2>1. PICK b \in Requests : UploadedOnce(r, b) /\ n \in FileOf(b)
    BY <1>1, <1>3 DEF Answers
  <2>2. FileOf(b) = FileOf(a)
    BY <1>4, <2>1 DEF UploadedOnce
  <2> QED
    BY <1>2, <1>5, <2>1, <2>2 DEF MayCite, OwnOrOutlived
<1>6. CASE ~overlap
  <2>1. PICK b \in grants : Owner(b) = Owner(r) /\ n \in FileOf(b)
    BY <1>1, <1>3, <1>6 DEF Removes
  <2>2. b \in Requests /\ Agreed
    BY <1>6 DEF Inductive, InterleavedInv, TypeOK, SequentialInv
  <2>3. asset[b] = "active" /\ reply[b] = "uploaded"
    BY <2>1, <2>2 DEF Agreed, Kept
  <2>4. FileOf(b) = FileOf(a)
    BY <1>4, <2>1, <2>2, <2>3
  <2>5. a = b
    BY <2>2, <2>3, <2>4 DEF Agreed, Serving
  <2> QED
    BY <1>2, <2>1, <2>5 DEF MayCite, OwnOrOutlived
<1> QED
  BY <1>5, <1>6

LEMMA QueryScopeKeeps ==
  ASSUME Inductive, NEW r \in Requests, QueryScopeAssets(r)
  PROVE  InterleavedInv'
<1> DEFINE allowed == {a \in local[r].scope : Serving(a) /\ FileOf(a) \subseteq local[r].held}
           h == [local[r] EXCEPT !.scope = allowed]
<1>1. /\ pc[r] = "scope_assets" /\ AtWork(r) /\ UNCHANGED <<server, call, cited, history>>
      /\ GoWith(r, "search", h) /\ InterleavedInv
  BY DEF QueryScopeAssets, AtWork, Inductive
<1>2. local[r] \in Local /\ local[r].scope \subseteq Requests
  BY <1>1, AtWorkFacts DEF Local
<1>3. h \in Local /\ h.scope = allowed
  BY <1>2 DEF Local
<1>4. \A a \in allowed : MayCite(r, a)
  BY <1>1, <1>2, ScopeIsCitable
<1> HIDE DEF h, allowed
<1> QED
  BY <1>1, <1>3, <1>4, QueryMoves

LEMMA QuerySearchKeeps ==
  ASSUME InterleavedInv, NEW r \in Requests, QuerySearch(r) \/ QueryReferences(r)
  PROVE  InterleavedInv'
<1>1. /\ pc[r] \in {"search", "references"} /\ AtWork(r)
      /\ UNCHANGED <<server, call, cited, history>>
  BY DEF QuerySearch, QueryReferences, AtWork
<1>2. /\ TypeOK /\ local[r] \in Local /\ local[r].scope \subseteq Requests /\ reply[r] = "none"
      /\ \A a \in local[r].scope : MayCite(r, a)
  BY <1>1, AtWorkFacts DEF Local, Answers
<1>3. CASE Answer(r, "refused") \/ Answer(r, "crashed")
  BY <1>1, <1>3, AnswerQuietly DEF Replies
<1>4. ASSUME NEW hits \in SUBSET (local[r].scope \cap index),
             GoWith(r, "references", [local[r] EXCEPT !.scope = hits])
      PROVE  InterleavedInv'
  <2> DEFINE h == [local[r] EXCEPT !.scope = hits]
  <2>1. h \in Local /\ h.scope = hits
    BY <1>2 DEF Local
  <2> HIDE DEF h
  <2> QED
    BY <1>1, <1>2, <1>4, <2>1, QueryMoves DEF h
<1>5. CASE Go(r, "generate")
  <2>1. Moves(r, "generate", reply[r], local[r])
    BY <1>1, <1>2, <1>5, MovesOf DEF history
  <2>2. Sound(r, "generate", reply[r], local[r])
    BY <1>2 DEF Sound, Steps, Replies, OnLoop, Dropping, Holding
  <2> QED
    BY <1>1, <2>1, <2>2, QuietStep
<1> QED
  BY <1>3, <1>4, <1>5 DEF QuerySearch, QueryReferences

LEMMA QueryGenerateKeeps ==
  ASSUME InterleavedInv, NEW r \in Requests, QueryGenerate(r)
  PROVE  InterleavedInv'
<1>1. pc[r] = "generate" /\ AtWork(r) /\ UNCHANGED <<server, call, history>>
  BY DEF QueryGenerate, AtWork
<1>2. /\ TypeOK /\ local[r].scope \subseteq Requests
      /\ \A a \in local[r].scope : MayCite(r, a)
  BY <1>1, AtWorkFacts DEF Local, Answers
<1>3. CASE Answer(r, "refused") /\ UNCHANGED cited
  BY <1>1, <1>3, AnswerQuietly DEF Replies
<1>4. CASE cited' = [cited EXCEPT ![r] = local[r].scope] /\ Answer(r, "answered")
  <2>1. Moves(r, "done", "answered", Blank) /\ Sound(r, "done", "answered", Blank)
    BY <1>1, <1>2, <1>4, MovesOf, AnswerSound DEF history, Replies
  <2>2. /\ cited' \in [Requests -> SUBSET Requests] /\ cited'[r] = local[r].scope
        /\ \A q \in Requests : q # r => cited'[q] = cited[q]
    BY <1>2, <1>4 DEF TypeOK
  <2>3. /\ UNCHANGED <<session, asset, version, index, grants, removed>>
        /\ WorldTyped' /\ removed \subseteq removed'
    BY <1>1, <1>2 DEF server, history, TypeOK, WorldTyped
  <2>4. ASSUME NEW a \in Requests
        PROVE  a \in removed' => Past(a) /\ version'[a] = "none"
    BY <2>3 DEF InterleavedInv, Made
  <2> QED
    BY <1>1, <1>2, <2>1, <2>2, <2>3, <2>4, HandlerStep
<1> QED
  BY <1>3, <1>4 DEF QueryGenerate

LEMMA ScanRaisesKeeps ==
  ASSUME InterleavedInv, NEW r \in Requests, ScanRaises(r)
  PROVE  InterleavedInv'
<1>1. AtWork(r) /\ UNCHANGED <<server, call, cited, history>> /\ Answer(r, "crashed")
  BY RaisesAnswers DEF ScanRaises, AtWork
<1> QED
  BY <1>1, AnswerQuietly DEF Replies

LEMMA LoginKeeps ==
  ASSUME InterleavedInv, NEW s \in Sessions, Login(s)
  PROVE  InterleavedInv'
<1>1. /\ session' = [session EXCEPT ![s] = "live"]
      /\ UNCHANGED <<asset, version, index, grants, pc, call, reply, local, cited,
                     removed, gone, overlap>>
  BY DEF Login, history
<1>2. TypeOK'
  BY <1>1 DEF InterleavedInv, TypeOK
<1>3. ASSUME NEW r \in Requests PROVE (Placed(r) /\ Made(r) /\ Drops(r) /\ Answers(r))'
  <2>1. Placed(r) /\ Made(r) /\ Drops(r) /\ Answers(r)
    BY DEF InterleavedInv
  <2> QED
    BY <1>1, <2>1 DEF Placed, Made, Drops, Answers, Past, Mine, MayCite, OwnOrOutlived, UploadedOnce,
       Owner, FileOf
<1> QED
  BY <1>2, <1>3 DEF InterleavedInv

\* A request that comes finds its handler's first step.
Comes(r, c) ==
  /\ session[c.session] = "live"
  /\ call' = [call EXCEPT ![r] = c] /\ call'[r] = c
  /\ pc' = [pc EXCEPT ![r] = FirstStep(c.want)] /\ pc'[r] = FirstStep(c.want)
  /\ gone' = [gone EXCEPT ![r] = IF c.want = "query" THEN removed ELSE {}]
  /\ \E h \in Local : local' = [local EXCEPT ![r] = h]

LEMMA ArriveFacts ==
  ASSUME InterleavedInv, NEW r \in Requests, Arrive(r)
  PROVE  /\ pc[r] = "idle" /\ UNCHANGED <<server, cited, removed, reply>>
         /\ overlap' = (overlap \/ InFlight # {})
         /\ \E c \in Calls : Comes(r, c)
         /\ \A q \in Requests : q # r => /\ pc'[q] = pc[q] /\ call'[q] = call[q]
                                         /\ local'[q] = local[q] /\ gone'[q] = gone[q]
<1>1. PICK c \in Calls :
        /\ session[c.session] = "live" /\ call' = [call EXCEPT ![r] = c]
        /\ GoWith(r, FirstStep(c.want), [Blank EXCEPT !.names = c.names])
        /\ gone' = [gone EXCEPT ![r] = IF c.want = "query" THEN removed ELSE {}]
  BY DEF Arrive
<1> DEFINE h == [Blank EXCEPT !.names = c.names]
<1>2. TypeOK
  BY DEF InterleavedInv
<1>3. h \in Local
  BY CallFacts DEF Blank, Local
<1> HIDE DEF h
<1>4. local' = [local EXCEPT ![r] = h] /\ pc' = [pc EXCEPT ![r] = FirstStep(c.want)] /\ reply' = reply
  BY <1>1 DEF GoWith, Goto, h
<1>5. Comes(r, c)
  BY <1>1, <1>2, <1>3, <1>4 DEF TypeOK, Comes
<1> QED
  BY <1>1, <1>2, <1>4, <1>5 DEF TypeOK, Arrive

LEMMA ArriveKeeps ==
  ASSUME InterleavedInv, NEW r \in Requests, Arrive(r)
  PROVE  InterleavedInv'
<1>1. /\ TypeOK /\ Placed(r) /\ pc[r] = "idle" /\ reply[r] = "none" /\ cited[r] = {}
      /\ ~Past(r) /\ asset[r] = "none" /\ r \notin removed /\ r \notin grants
  BY ArriveFacts DEF InterleavedInv, Placed, Made, Past
<1>2. /\ UNCHANGED <<session, asset, version, index, grants, cited, removed, reply>>
      /\ overlap => overlap'
      /\ \A q \in Requests : q # r => /\ pc'[q] = pc[q] /\ call'[q] = call[q]
                                      /\ local'[q] = local[q] /\ gone'[q] = gone[q]
  BY ArriveFacts DEF server
<1>3. PICK c \in Calls : Comes(r, c)
  BY ArriveFacts
<1>4. \/ c.want = "upload" /\ pc'[r] = "read"
      \/ c.want = "delete" /\ pc'[r] = "find_own"
      \/ c.want = "query" /\ pc'[r] = "find"
      \/ c.want = "logout" /\ pc'[r] = IF ClearOnLogout THEN "list" ELSE "sign_out"
  <2>1. pc'[r] = FirstStep(c.want)
    BY <1>3 DEF Comes
  <2>2. c.want \in {"upload", "delete", "query", "logout"}
    BY CallFacts
  <2> QED
    BY <2>1, <2>2, FirstSteps
<1>5. pc'[r] \in {"read", "find_own", "find", "list", "sign_out"}
  BY <1>4
<1>6. TypeOK'
  <2>1. overlap' \in BOOLEAN
    BY ArriveFacts, <1>1 DEF TypeOK
  <2>2. FirstStep(c.want) \in Steps \ {"idle"}
    BY <1>1, <1>3, <1>5 DEF Steps, TypeOK, Comes
  <2>3. gone' \in [Requests -> SUBSET Requests]
    BY <1>1, <1>3 DEF TypeOK, Comes
  <2>4. pc' \in [Requests -> Steps] /\ local' \in [Requests -> Local] /\ call' \in [Requests -> Calls \cup {None}]
    BY <1>1, <1>3, <2>2 DEF TypeOK, Comes
  <2>5. \A q \in Requests : pc'[q] # "idle" => call'[q] \in Calls
    BY <1>1, <1>2, <1>3 DEF TypeOK, Comes
  <2> QED
    BY <1>1, <1>2, <2>1, <2>3, <2>4, <2>5 DEF TypeOK
<1>7. ASSUME NEW a \in Requests, Past(a) PROVE a # r /\ Past(a)'
  BY <1>1, <1>2, <1>7 DEF Past
<1>8. ASSUME NEW p \in Requests, p # r, NEW b, UploadedOnce(p, b)
      PROVE  UploadedOnce(p, b)' /\ FileOf(b)' = FileOf(b)
  BY <1>1, <1>2, <1>8 DEF UploadedOnce, Owner, FileOf
<1>9. ASSUME NEW p \in Requests, p # r, NEW a \in Requests, MayCite(p, a) PROVE MayCite(p, a)'
  <2>1. Past(a)' /\ a # r /\ a \notin gone'[p]
    BY <1>2, <1>7, <1>9 DEF MayCite
  <2>2. CASE Owner(a) = Owner(p)
    BY <1>2, <1>9, <2>1, <2>2 DEF MayCite, OwnOrOutlived, Owner
  <2>3. CASE overlap /\ \E b \in Requests : UploadedOnce(p, b) /\ FileOf(b) = FileOf(a)
    <3>1. PICK b \in Requests : UploadedOnce(p, b) /\ FileOf(b) = FileOf(a)
      BY <2>3
    <3>2. UploadedOnce(p, b)' /\ FileOf(b)' = FileOf(a)'
      BY <1>2, <1>8, <1>9, <2>1, <3>1 DEF FileOf
    <3> QED
      BY <1>2, <2>1, <2>3, <3>2 DEF MayCite, OwnOrOutlived
  <2> QED
    BY <1>9, <2>2, <2>3 DEF MayCite, OwnOrOutlived
<1>10. ASSUME NEW p \in Requests PROVE Placed(p)'
  <2>1. CASE p = r
    BY <1>1, <1>2, <1>3, <1>4, <2>1 DEF Comes, Placed, OnLoop, Dropping, Holding
  <2>2. CASE p # r
    BY <1>2, <2>2 DEF InterleavedInv, Placed
  <2> QED
    BY <2>1, <2>2
<1>11. ASSUME NEW a \in Requests PROVE Made(a)'
  <2>1. Made(a)
    BY DEF InterleavedInv
  <2> QED
    BY <1>1, <1>2, <1>7, <2>1 DEF Made
<1>12. ASSUME NEW p \in Requests PROVE Drops(p)'
  <2>1. CASE p = r
    BY <1>5, <2>1 DEF Drops, Dropping, Holding
  <2>2. CASE p # r
    <3>1. Drops(p) /\ local[p].picked \subseteq Requests
      BY <1>1 DEF InterleavedInv, TypeOK, Local
    <3>2. ASSUME NEW a \in Requests, Mine(p, a) PROVE Mine(p, a)'
      BY <1>2, <1>7, <2>2, <3>2 DEF Mine, Owner
    <3> QED
      BY <1>2, <2>2, <3>1, <3>2 DEF Drops
  <2> QED
    BY <2>1, <2>2
<1>13. ASSUME NEW p \in Requests PROVE Answers(p)'
  <2>1. CASE p = r
    BY <1>1, <1>2, <1>3, <1>5, <2>1 DEF Comes, Answers, TypeOK
  <2>2. CASE p # r
    <3>1. /\ Answers(p) /\ local[p].scope \subseteq Requests /\ cited[p] \subseteq Requests
      BY <1>1 DEF InterleavedInv, TypeOK, Local
    <3>2. gone'[p] \subseteq removed' /\ pc'[p] = pc[p] /\ local'[p] = local[p] /\ cited'[p] = cited[p]
      BY <1>2, <2>2, <3>1 DEF Answers
    <3>3. ASSUME pc[p] = "scope_assets", NEW n \in local[p].held
          PROVE  \E b \in Requests : UploadedOnce(p, b)' /\ n \in FileOf(b)'
      BY <1>8, <2>2, <3>1, <3>3 DEF Answers
    <3>4. ASSUME NEW a, \/ a \in cited[p]
                        \/ pc[p] \in {"search", "references", "generate"} /\ a \in local[p].scope
          PROVE  MayCite(p, a)'
      <4>1. MayCite(p, a) /\ a \in Requests
        BY <3>1, <3>4 DEF Answers
      <4> QED
        BY <1>9, <2>2, <4>1
    <3> QED
      BY <3>2, <3>3, <3>4 DEF Answers
  <2> QED
    BY <2>1, <2>2
<1> QED
  BY <1>6, <1>10, <1>11, <1>12, <1>13 DEF InterleavedInv

-----------------------------------------------------------------------------
(***************************************************************************)
(* As long as no request overlapped another: r is the handler at work.     *)
(***************************************************************************)
AgreedFor(r) ==
  \A a \in Requests :
    /\ asset[a] = "active" <=> Kept(a) \/ (a = r /\ pc[r] = "add_grant")
    /\ a \in grants <=> Kept(a) /\ ~(pc[r] = "remove" /\ local[r].item = a)
    /\ a \in index <=>
         /\ Kept(a) \/ (a = r /\ pc[r] \in {"transit", "activate", "store_active", "add_grant"})
         /\ ~(pc[r] \in {"revoke", "remove"} /\ local[r].item = a)

Unique ==
  \A a, b \in Requests : asset[a] # "none" /\ asset[b] # "none" /\ FileOf(a) = FileOf(b) => a = b

\* Nobody else's keys come or go while r scans.
LEMMA AloneFacts ==
  ASSUME InterleavedInv, SequentialInv, NEW r \in Requests, AtWork(r)
  PROVE  /\ \A q \in Requests : q # r => pc[q] \in {"idle", "done"}
         /\ AgreedFor(r) /\ Unique /\ Uploads(r) /\ Removes(r) /\ Leaves(r) /\ Attended
         /\ ~Kept(r)
         /\ \A d \in {"assets", "versions", "grants"} : ~Raises(r, d)
<1>1. \A q \in Requests : q # r => pc[q] \in {"idle", "done"}
  BY DEF SequentialInv, Alone, AtWork
<1>2. AgreedFor(r) /\ Unique
  BY <1>1 DEF SequentialInv, Agreed, AgreedFor, Unique, InHand
<1>3. ASSUME NEW d \in {"assets", "versions", "grants"} PROVE ~Raises(r, d)
  <2>1. Resizing[d] \subseteq {"create", "store_active", "remove", "add_grant", "revoke"}
    BY DEF Resizing
  <2> QED
    BY <1>1, <2>1 DEF Raises
<1>4. ~Kept(r)
  BY AtWorkFacts DEF Kept
<1> QED
  BY <1>1, <1>2, <1>3, <1>4 DEF SequentialInv

LEMMA SequentialStep ==
  ASSUME InterleavedInv, SequentialInv, NEW r \in Requests, AtWork(r),
         NEW s, NEW w, NEW h, Moves(r, s, w, h),
         (AgreedFor(r) /\ Unique /\ Uploads(r) /\ Removes(r) /\ Leaves(r) /\ Attended)'
  PROVE  SequentialInv'
<1>1. \A q \in Requests : q # r => pc'[q] \in {"idle", "done"}
  BY AloneFacts, MovesAt DEF InterleavedInv
<1>2. Alone'
  BY <1>1 DEF Alone, AtWork
<1>3. Agreed'
  BY <1>1 DEF Agreed, AgreedFor, Unique, InHand
<1>4. ASSUME NEW q \in Requests PROVE (Uploads(q) /\ Removes(q) /\ Leaves(q))'
  <2>1. CASE q # r
    BY <1>1, <2>1 DEF Uploads, Removes, Leaves, OnLoop, Dropping, Holding, AtWork
  <2> QED
    BY <2>1
<1> QED
  BY <1>2, <1>3, <1>4 DEF SequentialInv

\* A step that leaves the world alone, between steps at which the same is owed.
LEMMA SequentialQuiet ==
  ASSUME InterleavedInv, SequentialInv, NEW r \in Requests, AtWork(r),
         NEW s, NEW w, NEW h, Moves(r, s, w, h), UNCHANGED <<server, removed>>, w # "uploaded",
         pc[r] # "add_grant", s # "add_grant", pc[r] \notin {"revoke", "remove"}, s # "remove",
         pc[r] \in {"transit", "activate", "store_active"}
           <=> s \in {"transit", "activate", "store_active"},
         s = "revoke" => h.item \notin index,
         (Uploads(r) /\ Removes(r))',
         s \in Dropping /\ call[r].want = "logout" => \A a \in Requests :
           asset[a] # "none" /\ Owner(a) = Owner(r) =>
             a \in h.picked \/ (s \in Holding /\ a = h.item),
         s = "sign_out" /\ ClearOnLogout => \A a \in Requests :
           asset[a] # "none" => Owner(a) # Owner(r)
  PROVE  SequentialInv'
<1>1. /\ pc'[r] = s /\ reply'[r] = w /\ local'[r] = h
      /\ \A q \in Requests : q # r => pc'[q] = pc[q] /\ reply'[q] = reply[q] /\ local'[q] = local[q]
      /\ call' = call
      /\ UNCHANGED <<session, asset, version, index, grants, removed>>
  BY MovesAt DEF InterleavedInv, server
<1>2. /\ \A q \in Requests : q # r => pc[q] \in {"idle", "done"}
      /\ AgreedFor(r) /\ Unique /\ Leaves(r) /\ Attended /\ ~Kept(r)
  BY AloneFacts
<1>3. \A a \in Requests : Kept(a)' <=> Kept(a)
  BY <1>1, <1>2 DEF Kept
<1>4. AgreedFor(r)'
  BY <1>1, <1>2, <1>3 DEF AgreedFor
<1>5. Unique' /\ Attended'
  BY <1>1, <1>2 DEF Unique, Attended, FileOf, Owner
<1>6. Leaves(r)'
  BY <1>1, <1>2 DEF Leaves, Owner, Chosen
<1> QED
  BY <1>4, <1>5, <1>6, SequentialStep

\* A handler that ends without a success.
LEMMA SequentialAnswer ==
  ASSUME InterleavedInv, SequentialInv, NEW r \in Requests, AtWork(r), NEW w, Answer(r, w),
         w # "uploaded", UNCHANGED <<server, call, history>>,
         pc[r] \notin {"transit", "activate", "store_active", "add_grant", "revoke", "remove"}
  PROVE  SequentialInv'
<1>1. Moves(r, "done", w, Blank)
  BY MovesOf DEF InterleavedInv, history
<1>2. pc'[r] = "done"
  BY <1>1, MovesAt DEF InterleavedInv
<1>3. (Uploads(r) /\ Removes(r))'
  BY <1>2 DEF Uploads, Removes, OnLoop, Dropping, Holding
<1> QED
  BY <1>1, <1>3, SequentialQuiet DEF Dropping, Holding, history

LEMMA UploadReadAlone ==
  ASSUME InterleavedInv, SequentialInv, NEW r \in Requests, UploadRead(r)
  PROVE  SequentialInv'
<1>1. pc[r] = "read" /\ AtWork(r) /\ UNCHANGED <<server, call, cited, history>>
  BY DEF UploadRead, AtWork
<1>2. CASE Answer(r, "exists")
  BY <1>1, <1>2, SequentialAnswer
<1>3. CASE AssetsAt(FileOf(r)) = {} /\ Go(r, "create")
  <2>1. Moves(r, "create", "none", local[r])
    BY <1>1, <1>3, MovesOf, AtWorkFacts DEF history
  <2>2. pc'[r] = "create" /\ call' = call /\ asset' = asset
    BY <1>1, <2>1, MovesAt DEF InterleavedInv, server
  <2>3. \A a \in Requests : asset[a] # "none" => FileOf(a) # FileOf(r)
    BY <1>3 DEF AssetsAt
  <2>4. (Uploads(r) /\ Removes(r))'
    BY <2>2, <2>3 DEF Uploads, Removes, FileOf, Dropping, Holding
  <2> QED
    BY <1>1, <2>1, <2>4, SequentialQuiet DEF Dropping, Holding, history
<1> QED
  BY <1>2, <1>3 DEF UploadRead

LEMMA UploadParseAlone ==
  ASSUME InterleavedInv, SequentialInv, NEW r \in Requests,
         UploadParse(r) \/ UploadSliceRead(r) \/ UploadActivate(r)
  PROVE  SequentialInv'
<1>1. pc[r] \in {"parse", "slice_read", "activate"} /\ AtWork(r) /\ UNCHANGED <<server, call, cited, history>>
  BY DEF UploadParse, UploadSliceRead, UploadActivate, ReadIndex, AtWork
<1>2. asset[r] # "none" /\ version[r] # "none"
  BY <1>1, AloneFacts DEF Uploads, OnLoop
<1>3. TypeOK /\ reply[r] = "none" /\ local[r] \in Local
  BY <1>1, AtWorkFacts
<1>4. CASE UploadParse(r) /\ Answer(r, "ingest_failed")
  BY <1>1, <1>4, SequentialAnswer DEF UploadParse
<1>5. CASE \/ UploadParse(r) /\ Go(r, "slice_read")
           \/ UploadActivate(r) /\ Go(r, "store_active")
  <2>1. PICK s : Go(r, s) /\ \/ pc[r] = "parse" /\ s = "slice_read"
                             \/ pc[r] = "activate" /\ s = "store_active"
    BY <1>5 DEF UploadParse, UploadActivate
  <2>2. Moves(r, s, "none", local[r])
    BY <1>1, <1>3, <2>1, MovesOf DEF history
  <2>3. pc'[r] = s /\ UNCHANGED <<asset, version>>
    BY <1>1, <1>3, <2>2, MovesAt DEF server
  <2>4. (Uploads(r) /\ Removes(r))'
    BY <1>2, <2>1, <2>3 DEF Uploads, Removes, Dropping, Holding
  <2> QED
    BY <1>1, <2>1, <2>2, <2>4, SequentialQuiet DEF Dropping, Holding, history
<1>6. CASE UploadSliceRead(r)
  <2> DEFINE h == [local[r] EXCEPT !.copy = index]
  <2>1. pc[r] = "slice_read" /\ GoWith(r, "slice_store", h)
    BY <1>6 DEF UploadSliceRead, ReadIndex
  <2>2. h.copy = index
    BY <1>3 DEF Local
  <2>3. Moves(r, "slice_store", "none", h)
    BY <1>1, <1>3, <2>1, MovesOf DEF history
  <2> HIDE DEF h
  <2>4. pc'[r] = "slice_store" /\ local'[r] = h /\ UNCHANGED <<asset, version, index>>
    BY <1>1, <1>3, <2>3, MovesAt DEF server
  <2>5. (Uploads(r) /\ Removes(r))'
    BY <1>2, <2>2, <2>4 DEF Uploads, Removes, Dropping, Holding
  <2> QED
    BY <1>1, <2>1, <2>3, <2>5, SequentialQuiet DEF Dropping, Holding, history
<1> QED
  BY <1>2, <1>4, <1>5, <1>6 DEF UploadParse, UploadActivate

\* What an upload's writing steps share.
LEMMA UploadAlone ==
  ASSUME InterleavedInv, SequentialInv, NEW r \in Requests, pc[r] \in OnLoop,
         NEW s \in {"parse", "transit", "activate", "add_grant", "done"}, NEW w, NEW h,
         Moves(r, s, w, h), UNCHANGED <<session, removed>>, asset'[r] # "none",
         version'[r] # "none", (AgreedFor(r) /\ Unique /\ Attended)'
  PROVE  SequentialInv'
<1>1. AtWork(r)
  BY DEF AtWork, OnLoop
<1>2. pc'[r] = s /\ call' = call
  BY MovesAt DEF InterleavedInv
<1>3. (Uploads(r) /\ Removes(r))'
  BY <1>2 DEF Uploads, Removes, Dropping, Holding
<1>4. Leaves(r)'
  BY <1>1, <1>2, AloneFacts DEF Leaves, Dropping, Holding
<1> QED
  BY <1>1, <1>3, <1>4, SequentialStep

LEMMA UploadCreateAlone ==
  ASSUME InterleavedInv, SequentialInv, NEW r \in Requests, UploadCreate(r)
  PROVE  SequentialInv'
<1>1. /\ pc[r] = "create" /\ UNCHANGED <<session, index, grants, call, cited, history>>
      /\ asset' = [asset EXCEPT ![r] = "inactive"] /\ AtWork(r)
  BY DEF UploadCreate, AtWork
<1>2. /\ TypeOK /\ reply[r] = "none" /\ call[r] \in Calls /\ asset[r] = "none" /\ r \notin removed
  BY <1>1, AtWorkFacts DEF Made, Past
<1>3. /\ AgreedFor(r) /\ Unique /\ Uploads(r) /\ Attended /\ ~Kept(r)
      /\ session[call[r].session] = "live"
  BY <1>1, AloneFacts DEF Leaves
<1>4. version' = [version EXCEPT ![r] = "queued"] /\ Go(r, "parse")
  BY <1>1, AloneFacts DEF UploadCreate
<1>5. Moves(r, "parse", "none", local[r])
  BY <1>1, <1>2, <1>4, MovesOf DEF history
<1>6. /\ pc'[r] = "parse" /\ reply'[r] = "none" /\ local'[r] = local[r] /\ call' = call
      /\ removed' = removed
      /\ \A q \in Requests : q # r => pc'[q] = pc[q] /\ reply'[q] = reply[q] /\ asset'[q] = asset[q]
      /\ asset'[r] = "inactive" /\ version'[r] = "queued"
  BY <1>1, <1>2, <1>4, <1>5, MovesAt DEF history, TypeOK
<1>7. \A a \in Requests : Kept(a)' <=> Kept(a)
  BY <1>3, <1>6 DEF Kept
<1>8. AgreedFor(r)'
  BY <1>1, <1>2, <1>3, <1>6, <1>7 DEF AgreedFor
<1>9. Unique'
  BY <1>1, <1>3, <1>6 DEF Unique, Uploads, FileOf
<1>10. Attended'
  <2>1. UserOf[call[r].session] = Owner(r) /\ call[r].session \in Sessions
    BY <1>2, CallFacts DEF Owner
  <2>2. \A a \in Requests : Owner(a)' = Owner(a)
    BY <1>6 DEF Owner
  <2> QED
    BY <1>1, <1>3, <1>6, <2>1, <2>2 DEF Attended
<1> QED
  BY <1>1, <1>5, <1>6, <1>8, <1>9, <1>10, UploadAlone DEF OnLoop

LEMMA UploadWriteAlone ==
  ASSUME InterleavedInv, SequentialInv, NEW r \in Requests,
         UploadSliceStore(r) \/ UploadTransit(r) \/ UploadStoreActive(r) \/ UploadGrant(r)
  PROVE  SequentialInv'
<1>1. /\ pc[r] \in {"slice_store", "transit", "store_active", "add_grant"} /\ AtWork(r)
      /\ UNCHANGED <<session, call, cited, history>>
  BY DEF UploadSliceStore, UploadTransit, UploadStoreActive, UploadGrant, AtWork
<1>2. TypeOK /\ reply[r] = "none" /\ local[r] \in Local /\ Made(r)
  BY <1>1, AtWorkFacts
<1>3. /\ AgreedFor(r) /\ Unique /\ Uploads(r) /\ Attended /\ ~Kept(r)
      /\ asset[r] # "none" /\ version[r] # "none" /\ r \notin removed
  BY <1>1, <1>2, AloneFacts DEF Uploads, OnLoop, Made
<1>4. PICK s, w, h :
        /\ Moves(r, s, w, h)
        /\ \/ /\ pc[r] = "slice_store" /\ s = "transit" /\ w = "none"
              /\ index' = local[r].copy \cup {r} /\ UNCHANGED <<asset, version, grants>>
           \/ /\ pc[r] = "transit" /\ s = "activate" /\ w = "none"
              /\ version' = [version EXCEPT ![r] = "ready"] /\ UNCHANGED <<asset, index, grants>>
           \/ /\ pc[r] = "store_active" /\ s = "add_grant" /\ w = "none"
              /\ asset' = [asset EXCEPT ![r] = "active"] /\ UNCHANGED <<version, index, grants>>
           \/ /\ pc[r] = "add_grant" /\ s = "done" /\ w = "uploaded"
              /\ grants' = grants \cup {r} /\ UNCHANGED <<asset, version, index>>
  <2>1. \A n \in {"transit", "activate", "add_grant"} : Go(r, n) => Moves(r, n, "none", local[r])
    BY <1>1, <1>2, MovesOf DEF history
  <2>2. Answer(r, "uploaded") => Moves(r, "done", "uploaded", Blank)
    BY <1>1, <1>2, MovesOf DEF history
  <2>3. CASE UploadSliceStore(r)
    BY <2>1, <2>3 DEF UploadSliceStore
  <2>4. CASE UploadTransit(r)
    BY <1>3, <2>1, <2>4 DEF UploadTransit
  <2>5. CASE UploadStoreActive(r)
    BY <2>1, <2>5 DEF UploadStoreActive
  <2>6. CASE UploadGrant(r)
    BY <2>2, <2>6 DEF UploadGrant
  <2> QED
    BY <2>3, <2>4, <2>5, <2>6
<1>5. /\ pc'[r] = s /\ reply'[r] = w /\ call' = call /\ removed' = removed
      /\ \A q \in Requests : q # r => pc'[q] = pc[q] /\ reply'[q] = reply[q]
  BY <1>1, <1>2, <1>4, MovesAt DEF history
<1>6. /\ \A q \in Requests : q # r => asset'[q] = asset[q]
      /\ asset'[r] # "none" /\ version'[r] # "none"
      /\ \A q \in Requests : asset'[q] # "none" <=> asset[q] # "none"
  BY <1>2, <1>3, <1>4 DEF TypeOK
<1>7. \A a \in Requests : a # r => (Kept(a)' <=> Kept(a))
  BY <1>5 DEF Kept
<1>8. Kept(r)' <=> s = "done"
  BY <1>3, <1>4, <1>5 DEF Kept
<1>9. AgreedFor(r)'
  <2>1. CASE s = "transit"
    <3>1. index' = index \cup {r} /\ UNCHANGED <<asset, grants>>
      BY <1>3, <1>4, <2>1 DEF Uploads
    <3> QED
      BY <1>3, <1>4, <1>5, <1>7, <1>8, <2>1, <3>1 DEF AgreedFor
  <2>2. CASE s = "activate"
    BY <1>3, <1>4, <1>5, <1>7, <1>8, <2>2 DEF AgreedFor
  <2>3. CASE s = "add_grant"
    <3>1. asset'[r] = "active" /\ UNCHANGED <<index, grants>> /\ pc[r] = "store_active"
      BY <1>2, <1>4, <2>3 DEF TypeOK
    <3> QED
      BY <1>3, <1>5, <1>6, <1>7, <1>8, <2>3, <3>1 DEF AgreedFor
  <2>4. CASE s = "done"
    BY <1>3, <1>4, <1>5, <1>7, <1>8, <2>4 DEF AgreedFor
  <2> QED
    BY <1>4, <2>1, <2>2, <2>3, <2>4
<1>10. Unique' /\ Attended'
  BY <1>1, <1>3, <1>5, <1>6 DEF Unique, Attended, FileOf, Owner
<1> QED
  BY <1>1, <1>4, <1>5, <1>6, <1>9, <1>10, UploadAlone DEF OnLoop

LEMMA PickAlone ==
  ASSUME InterleavedInv, SequentialInv, NEW r \in Requests, NEW some \in SUBSET Requests,
         Pick(r, some), pc[r] \in {"find_own", "list"}, UNCHANGED <<server, call, cited, history>>,
         \A a \in some : asset[a] # "none",
         call[r].want = "logout" => \A a \in Requests :
           asset[a] # "none" /\ Owner(a) = Owner(r) => a \in some
  PROVE  SequentialInv'
<1> DEFINE h == [local[r] EXCEPT !.picked = some, !.sliced = {a \in some : asset[a] = "active"}]
<1>1. /\ AtWork(r) /\ TypeOK /\ local[r] \in Local /\ reply[r] = "none"
  BY AtWorkFacts DEF AtWork
<1>2. h.picked = some /\ h.sliced = {a \in some : asset[a] = "active"}
  BY <1>1 DEF Local
<1>3. Moves(r, "next", "none", h)
  BY <1>1, MovesOf DEF Pick, history
<1> HIDE DEF h
<1>4. pc'[r] = "next" /\ local'[r] = h /\ asset' = asset
  BY <1>1, <1>3, MovesAt DEF server
<1>5. (Uploads(r) /\ Removes(r))'
  BY <1>2, <1>4 DEF Uploads, Removes, Chosen, OnLoop, Holding
<1> QED
  BY <1>1, <1>2, <1>3, <1>5, SequentialQuiet DEF history

LEMMA DeleteFindAlone ==
  ASSUME InterleavedInv, SequentialInv, NEW r \in Requests, DeleteFind(r)
  PROVE  SequentialInv'
<1>1. pc[r] = "find_own" /\ AtWork(r) /\ UNCHANGED <<server, call, cited, history>>
  BY DEF DeleteFind, AtWork
<1>2. CASE Answer(r, "missing") \/ Answer(r, "denied")
  BY <1>1, <1>2, SequentialAnswer
<1>3. CASE Pick(r, AssetsAt(FileOf(r)))
  <2>1. AssetsAt(FileOf(r)) \in SUBSET Requests /\ \A a \in AssetsAt(FileOf(r)) : asset[a] # "none"
    BY DEF AssetsAt
  <2>2. call[r].want = "delete"
    BY <1>1, AtWorkFacts DEF Placed
  <2> QED
    BY <1>1, <1>3, <2>1, <2>2, PickAlone
<1> QED
  BY <1>2, <1>3 DEF DeleteFind

LEMMA LogoutListAlone ==
  ASSUME InterleavedInv, SequentialInv, NEW r \in Requests, LogoutList(r)
  PROVE  SequentialInv'
<1> DEFINE some == {a \in AssetsAt(Names) : Owner(a) = Owner(r)}
<1>1. pc[r] = "list" /\ UNCHANGED <<server, call, cited, history>> /\ Pick(r, some)
  BY DEF LogoutList
<1>2. some \in SUBSET Requests /\ \A a \in some : asset[a] # "none"
  BY DEF AssetsAt
<1>3. ASSUME NEW a \in Requests, asset[a] # "none", Owner(a) = Owner(r) PROVE a \in some
  <2>1. Past(a)
    BY <1>3 DEF InterleavedInv, Made
  <2>2. FileOf(a) \subseteq Names
    BY <2>1, CallFacts DEF Past, FileOf
  <2> QED
    BY <1>3, <2>2 DEF AssetsAt
<1> HIDE DEF some
<1> QED
  BY <1>1, <1>2, <1>3, PickAlone

LEMMA DropNextAlone ==
  ASSUME InterleavedInv, SequentialInv, NEW r \in Requests, DropNext(r)
  PROVE  SequentialInv'
<1>1. pc[r] = "next" /\ AtWork(r) /\ UNCHANGED <<server, call, cited, history>>
  BY DEF DropNext, AtWork
<1>2. /\ TypeOK /\ local[r] \in Local /\ reply[r] = "none" /\ call[r].want \in {"delete", "logout"}
      /\ \A a \in local[r].picked : Mine(r, a) /\ a \in Requests /\ a # r
  BY <1>1, AtWorkFacts DEF Placed, Drops, Dropping, Local, Mine, Past
<1>3. AgreedFor(r) /\ Removes(r) /\ Leaves(r)
  BY <1>1, AloneFacts
<1>4. CASE Answer(r, "deleted")
  BY <1>1, <1>4, SequentialAnswer
<1>5. CASE local[r].picked = {} /\ call[r].want = "logout" /\ Go(r, "sign_out")
  <2>1. Moves(r, "sign_out", "none", local[r])
    BY <1>1, <1>2, <1>5, MovesOf DEF history
  <2>2. pc'[r] = "sign_out"
    BY <1>2, <2>1, MovesAt
  <2>3. (Uploads(r) /\ Removes(r))'
    BY <2>2 DEF Uploads, Removes, OnLoop, Dropping, Holding
  <2>4. \A a \in Requests : asset[a] # "none" => Owner(a) # Owner(r)
    BY <1>1, <1>3, <1>5 DEF Leaves, Chosen, Dropping, Holding
  <2> QED
    BY <1>1, <2>1, <2>3, <2>4, SequentialQuiet DEF Dropping, Holding, history
<1>6. ASSUME NEW a \in local[r].picked,
             GoWith(r, IF a \in local[r].sliced THEN "drop_read" ELSE "revoke",
                    [local[r] EXCEPT !.picked = local[r].picked \ {a}, !.item = a])
      PROVE  SequentialInv'
  <2> DEFINE h == [local[r] EXCEPT !.picked = local[r].picked \ {a}, !.item = a]
             s == IF a \in local[r].sliced THEN "drop_read" ELSE "revoke"
  <2>1. /\ h.picked = local[r].picked \ {a} /\ h.item = a /\ h.sliced = local[r].sliced
        /\ s \in {"drop_read", "revoke"} /\ (s = "drop_read" => a \in local[r].sliced)
        /\ (s = "revoke" => a \notin local[r].sliced)
    BY <1>2 DEF Local
  <2>2. Moves(r, s, "none", h)
    BY <1>1, <1>2, <1>6, MovesOf DEF history
  <2> HIDE DEF h, s
  <2>3. pc'[r] = s /\ local'[r] = h /\ asset' = asset
    BY <1>1, <1>2, <2>2, MovesAt DEF server
  <2>4. \A b \in local[r].picked : asset[b] # "none" /\ (b \in local[r].sliced <=> asset[b] = "active")
    BY <1>1, <1>2, <1>3 DEF Removes, Chosen, Dropping
  <2>5. s = "revoke" => h.item \notin index
    BY <1>2, <1>3, <1>6, <2>1, <2>4 DEF AgreedFor
  <2>6. (Uploads(r) /\ Removes(r))'
    BY <1>2, <2>1, <2>3, <2>4 DEF Uploads, Removes, Chosen, OnLoop, Dropping, Holding
  <2>7. call[r].want = "logout" => \A b \in Requests :
          asset[b] # "none" /\ Owner(b) = Owner(r) => b \in h.picked \/ (s \in Holding /\ b = h.item)
    BY <1>1, <1>3, <2>1 DEF Leaves, Chosen, Dropping, Holding
  <2> QED
    BY <1>1, <2>1, <2>2, <2>5, <2>6, <2>7, SequentialQuiet DEF history
<1> QED
  BY <1>4, <1>5, <1>6 DEF DropNext

LEMMA DropReadAlone ==
  ASSUME InterleavedInv, SequentialInv, NEW r \in Requests, DropRead(r)
  PROVE  SequentialInv'
<1> DEFINE h == [local[r] EXCEPT !.copy = index]
<1>1. /\ pc[r] = "drop_read" /\ GoWith(r, "drop_store", h) /\ AtWork(r)
      /\ UNCHANGED <<server, call, cited, history>>
  BY DEF DropRead, ReadIndex, AtWork
<1>2. TypeOK /\ reply[r] = "none" /\ local[r] \in Local
  BY <1>1, AtWorkFacts
<1>3. /\ h.copy = index /\ h.picked = local[r].picked /\ h.item = local[r].item
      /\ h.sliced = local[r].sliced
  BY <1>2 DEF Local
<1>4. Moves(r, "drop_store", "none", h)
  BY <1>1, <1>2, MovesOf DEF history
<1> HIDE DEF h
<1>5. pc'[r] = "drop_store" /\ local'[r] = h /\ UNCHANGED <<asset, index>>
  BY <1>1, <1>2, <1>4, MovesAt DEF server
<1>6. Removes(r) /\ Leaves(r)
  BY <1>1, AloneFacts
<1>7. (Uploads(r) /\ Removes(r))'
  BY <1>1, <1>3, <1>5, <1>6 DEF Uploads, Removes, Chosen, OnLoop, Dropping, Holding
<1>8. call[r].want = "logout" => \A b \in Requests :
        asset[b] # "none" /\ Owner(b) = Owner(r) => b \in h.picked \/ b = h.item
  BY <1>1, <1>3, <1>6 DEF Leaves, Chosen, Dropping, Holding
<1> QED
  BY <1>1, <1>4, <1>7, <1>8, SequentialQuiet DEF history, Holding, Dropping

LEMMA DropStoreAlone ==
  ASSUME InterleavedInv, SequentialInv, NEW r \in Requests, DropStore(r) \/ DropGrants(r)
  PROVE  SequentialInv'
<1>1. /\ pc[r] \in {"drop_store", "revoke"} /\ AtWork(r)
      /\ UNCHANGED <<session, asset, version, call, cited, history>>
  BY DEF DropStore, DropGrants, AtWork
<1>2. TypeOK /\ reply[r] = "none" /\ local[r] \in Local /\ local[r].item \in Requests
  BY <1>1, AtWorkFacts DEF Drops, Holding
<1>3. /\ AgreedFor(r) /\ Unique /\ Uploads(r) /\ Removes(r) /\ Leaves(r) /\ Attended /\ ~Kept(r)
      /\ asset[local[r].item] # "none"
  BY <1>1, <1>2, AloneFacts DEF Removes, Chosen, Dropping, Holding
<1>4. PICK s : /\ Go(r, s)
               /\ \/ /\ DropStore(r) /\ pc[r] = "drop_store" /\ s = "revoke"
                     /\ index' = index \ {local[r].item} /\ UNCHANGED grants
                  \/ /\ DropGrants(r) /\ pc[r] = "revoke" /\ s = "remove"
                     /\ grants' = grants \ Covering(r) /\ UNCHANGED index
  BY <1>3 DEF DropStore, DropGrants, Uploads
<1>5. Moves(r, s, "none", local[r])
  BY <1>1, <1>2, <1>4, MovesOf DEF history
<1>6. /\ pc'[r] = s /\ reply' = reply /\ local'[r] = local[r] /\ call' = call /\ removed' = removed
  BY <1>1, <1>2, <1>4, <1>5, MovesAt DEF history, Go, Goto
<1>7. \A a \in Requests : Kept(a)' <=> Kept(a)
  BY <1>6 DEF Kept
<1>8. AgreedFor(r)'
  <2>1. CASE s = "revoke"
    BY <1>1, <1>3, <1>4, <1>6, <1>7, <2>1 DEF AgreedFor
  <2>2. CASE s = "remove"
    <3>1. ASSUME NEW a \in Requests PROVE a \in grants' <=> a \in grants /\ a # local[r].item
      <4>1. a \in grants => asset[a] = "active"
        BY <1>3 DEF AgreedFor
      <4>2. a \in grants /\ FileOf(a) = FileOf(local[r].item) => a = local[r].item
        BY <1>2, <1>3, <4>1 DEF Unique
      <4> QED
        BY <1>4, <2>2, <4>2 DEF Covering
    <3> QED
      BY <1>1, <1>3, <1>4, <1>6, <1>7, <2>2, <3>1 DEF AgreedFor
  <2> QED
    BY <1>4, <2>1, <2>2
<1>9. (Uploads(r) /\ Removes(r) /\ Leaves(r))'
  BY <1>1, <1>3, <1>4, <1>6 DEF Uploads, Removes, Leaves, Chosen, Owner, OnLoop, Dropping, Holding, AtWork
<1>10. Unique' /\ Attended'
  BY <1>1, <1>3, <1>6 DEF Unique, Attended, FileOf, Owner
<1> QED
  BY <1>1, <1>5, <1>8, <1>9, <1>10, SequentialStep

LEMMA DropAssetAlone ==
  ASSUME InterleavedInv, SequentialInv, NEW r \in Requests, DropAsset(r)
  PROVE  SequentialInv'
<1>1. PICK a : a = local[r].item
  OBVIOUS
<1>2. /\ pc[r] = "remove" /\ asset' = [asset EXCEPT ![a] = "none"] /\ AtWork(r)
      /\ UNCHANGED <<session, index, grants, call, cited, gone, overlap>>
  BY <1>1 DEF DropAsset, AtWork
<1>3. /\ TypeOK /\ reply[r] = "none" /\ a \in Requests /\ Mine(r, a)
      /\ \A b \in local[r].picked : Mine(r, b)
  BY <1>1, <1>2, AtWorkFacts DEF Drops, Holding, Dropping
<1>4. /\ AgreedFor(r) /\ Unique /\ Removes(r) /\ Leaves(r) /\ Attended /\ ~Kept(r)
      /\ asset[a] # "none" /\ a \notin local[r].picked
  BY <1>1, <1>2, <1>3, AloneFacts DEF Removes, Chosen, Dropping, Holding
<1>5. version' = [version EXCEPT ![a] = "none"] /\ removed' = removed \cup {a} /\ Go(r, "next")
  BY <1>1, <1>2, <1>4, AloneFacts DEF DropAsset
<1>6. Moves(r, "next", "none", local[r])
  BY <1>2, <1>3, <1>5, MovesOf
<1>7. /\ pc'[r] = "next" /\ reply' = reply /\ local'[r] = local[r] /\ call' = call
      /\ asset'[a] = "none" /\ \A b \in Requests : b # a => asset'[b] = asset[b]
  BY <1>2, <1>3, <1>5, <1>6, MovesAt DEF TypeOK, Go, Goto
<1>8. \A b \in Requests : Kept(b)' <=> Kept(b) /\ b # a
  BY <1>5, <1>7 DEF Kept
<1>9. AgreedFor(r)'
  BY <1>1, <1>2, <1>4, <1>7, <1>8 DEF AgreedFor
<1>10. (Uploads(r) /\ Removes(r))'
  BY <1>1, <1>2, <1>4, <1>7 DEF Uploads, Removes, Chosen, OnLoop, Dropping, Holding
<1>11. Leaves(r)'
  BY <1>1, <1>2, <1>4, <1>7 DEF Leaves, Chosen, Owner, Dropping, Holding, AtWork
<1>12. Unique' /\ Attended'
  BY <1>2, <1>4, <1>7 DEF Unique, Attended, FileOf, Owner
<1> QED
  BY <1>2, <1>6, <1>9, <1>10, <1>11, <1>12, SequentialStep

LEMMA SignOutAlone ==
  ASSUME InterleavedInv, SequentialInv, NEW r \in Requests, SignOut(r)
  PROVE  SequentialInv'
<1>1. /\ pc[r] = "sign_out" /\ session' = [session EXCEPT ![call[r].session] = "closed"]
      /\ Answer(r, "signed_out") /\ AtWork(r)
      /\ UNCHANGED <<asset, version, index, grants, call, cited, history>>
  BY DEF SignOut, AtWork
<1>2. TypeOK
  BY DEF InterleavedInv
<1>3. Moves(r, "done", "signed_out", Blank)
  BY <1>1, <1>2, MovesOf DEF history
<1>4. /\ pc'[r] = "done" /\ reply'[r] = "signed_out" /\ call' = call /\ removed' = removed
      /\ \A q \in Requests : q # r => pc'[q] = pc[q] /\ reply'[q] = reply[q]
  BY <1>1, <1>2, <1>3, MovesAt DEF history
<1>5. AgreedFor(r) /\ Unique /\ Leaves(r) /\ Attended /\ ~Kept(r)
  BY <1>1, AloneFacts
<1>6. \A a \in Requests : Kept(a)' <=> Kept(a)
  BY <1>4, <1>5 DEF Kept
<1>7. AgreedFor(r)'
  BY <1>1, <1>4, <1>5, <1>6 DEF AgreedFor
<1>8. (Uploads(r) /\ Removes(r) /\ Leaves(r))'
  BY <1>4 DEF Uploads, Removes, Leaves, OnLoop, Dropping, Holding, AtWork
<1>9. Unique'
  BY <1>1, <1>4, <1>5 DEF Unique, FileOf
<1>10. Attended'
  <2>1. SUFFICES ASSUME ClearOnLogout, NEW a \in Requests, asset'[a] # "none"
                 PROVE  \E s \in Sessions : session'[s] = "live" /\ UserOf[s] = Owner(a)'
    BY DEF Attended
  <2>2. PICK s \in Sessions : session[s] = "live" /\ UserOf[s] = Owner(a)
    BY <1>1, <1>5, <2>1 DEF Attended
  <2>3. Owner(a) # Owner(r)
    BY <1>1, <1>5, <2>1 DEF Leaves
  <2>4. s # call[r].session
    BY <2>2, <2>3 DEF Owner
  <2> QED
    BY <1>1, <1>2, <2>2, <2>4 DEF TypeOK, Owner
<1> QED
  BY <1>1, <1>3, <1>7, <1>8, <1>9, <1>10, SequentialStep

\* Steps of a query: none but its scope is owed anything.
QuerySteps == {"find", "authorize", "check_grant", "scope_grants", "scope_assets", "search",
               "references", "generate"}

LEMMA QueryAlone ==
  ASSUME InterleavedInv, SequentialInv, NEW r \in Requests, QueryStep(r)
  PROVE  SequentialInv'
<1>1. /\ pc[r] \in QuerySteps /\ AtWork(r) /\ UNCHANGED <<server, call, history>>
  BY DEF QueryStep, QueryFind, QueryAuthorize, QueryCheckGrant, QueryScopeGrants, QueryScopeAssets,
     QuerySearch, QueryReferences, QueryGenerate, QuerySteps, AtWork
<1>2. TypeOK /\ reply[r] = "none" /\ local[r] \in Local
  BY <1>1, AtWorkFacts
<1>3. CASE \E w \in {"missing", "denied", "refused", "crashed", "answered"} : Answer(r, w)
  BY <1>1, <1>3, SequentialAnswer DEF QuerySteps
<1>4. ASSUME NEW s \in QuerySteps, NEW h, Moves(r, s, "none", h),
             s = "scope_assets" => \A n \in h.held : \E b \in grants : Owner(b) = Owner(r) /\ n \in FileOf(b)
      PROVE  SequentialInv'
  <2>1. pc'[r] = s /\ local'[r] = h /\ UNCHANGED <<grants, call>>
    BY <1>1, <1>2, <1>4, MovesAt DEF server
  <2>2. (Uploads(r) /\ Removes(r))'
    BY <1>4, <2>1 DEF Uploads, Removes, OnLoop, Dropping, Holding, QuerySteps, Owner, FileOf
  <2> QED
    BY <1>1, <1>4, <2>2, SequentialQuiet DEF QuerySteps, Dropping, Holding, history
<1>5. ASSUME NEW s \in QuerySteps \ {"scope_assets"}, Go(r, s) PROVE SequentialInv'
  BY <1>1, <1>2, <1>4, <1>5, MovesOf DEF history
<1>6. ASSUME NEW s \in QuerySteps \ {"scope_assets"}, NEW h, GoWith(r, s, h) PROVE SequentialInv'
  BY <1>1, <1>2, <1>4, <1>6, MovesOf DEF history
<1>7. CASE QueryScopeGrants(r)
  <2> DEFINE h == [local[r] EXCEPT !.held = Granted(Owner(r))]
  <2>1. Moves(r, "scope_assets", "none", h)
    BY <1>1, <1>2, <1>7, MovesOf DEF QueryScopeGrants, history
  <2>2. h.held = Granted(Owner(r))
    BY <1>2 DEF Local
  <2> HIDE DEF h
  <2>3. \A n \in h.held : \E b \in grants : Owner(b) = Owner(r) /\ n \in FileOf(b)
    BY <2>2 DEF Granted
  <2> QED
    BY <1>4, <2>1, <2>3 DEF QuerySteps
<1>8. CASE QueryFind(r)
  <2>1. CASE Answer(r, "missing")
    BY <1>3, <2>1
  <2>2. CASE \E s \in {"authorize", "find"} : \E h : GoWith(r, s, h)
    BY <1>6, <2>2 DEF QuerySteps
  <2> QED
    BY <1>8, <2>1, <2>2 DEF QueryFind
<1>9. CASE QueryAuthorize(r) \/ QueryCheckGrant(r)
  BY <1>3, <1>5, <1>6, <1>9 DEF QueryAuthorize, QueryCheckGrant, QuerySteps
<1>10. CASE QueryScopeAssets(r) \/ QuerySearch(r)
  BY <1>3, <1>6, <1>10 DEF QueryScopeAssets, QuerySearch, QuerySteps
<1>11. CASE QueryReferences(r) \/ QueryGenerate(r)
  BY <1>3, <1>5, <1>11 DEF QueryReferences, QueryGenerate, QuerySteps
<1> QED
  BY <1>7, <1>8, <1>9, <1>10, <1>11 DEF QueryStep

LEMMA ScanRaisesNever ==
  ASSUME InterleavedInv, SequentialInv, NEW r \in Requests
  PROVE  ~ScanRaises(r)
<1>1. SUFFICES ASSUME ScanRaises(r) PROVE FALSE
  OBVIOUS
<1>2. AtWork(r) /\ (Raises(r, "assets") \/ Raises(r, "grants"))
  BY <1>1 DEF ScanRaises, AtWork
<1> QED
  BY <1>2, AloneFacts

LEMMA ArriveAlone ==
  ASSUME InterleavedInv, ~overlap => SequentialInv, NEW r \in Requests, Arrive(r), ~overlap'
  PROVE  SequentialInv'
<1>1. /\ SequentialInv /\ InFlight = {}
  BY ArriveFacts
<1>2. \A q \in Requests : pc[q] \in {"idle", "done"}
  BY <1>1 DEF InFlight
<1>3. /\ TypeOK /\ Placed(r) /\ pc[r] = "idle" /\ reply[r] = "none"
      /\ asset[r] = "none" /\ r \notin removed /\ r \notin grants
  BY ArriveFacts DEF InterleavedInv, Placed, Made, Past
<1>4. /\ UNCHANGED <<session, asset, version, index, grants, removed, reply>>
      /\ \A q \in Requests : q # r => pc'[q] = pc[q] /\ call'[q] = call[q] /\ local'[q] = local[q]
  BY ArriveFacts DEF server
<1>5. PICK c \in Calls : Comes(r, c)
  BY ArriveFacts
<1>6. \/ c.want = "upload" /\ pc'[r] = "read"
      \/ c.want = "delete" /\ pc'[r] = "find_own"
      \/ c.want = "query" /\ pc'[r] = "find"
      \/ c.want = "logout" /\ pc'[r] = IF ClearOnLogout THEN "list" ELSE "sign_out"
  <2>1. pc'[r] = FirstStep(c.want)
    BY <1>5 DEF Comes
  <2>2. c.want \in {"upload", "delete", "query", "logout"}
    BY CallFacts
  <2> QED
    BY <2>1, <2>2, FirstSteps
<1>7. /\ \A q \in Requests : q # r => pc'[q] \in {"idle", "done"}
      /\ pc'[r] \in {"read", "find_own", "find", "list", "sign_out"}
  BY <1>2, <1>4, <1>6
<1>8. Alone'
  BY <1>7 DEF Alone, AtWork
<1>9. ASSUME NEW q \in Requests PROVE (Uploads(q) /\ Removes(q) /\ Leaves(q))'
  <2>1. CASE q # r
    BY <1>7, <2>1 DEF Uploads, Removes, Leaves, OnLoop, Dropping, Holding, AtWork
  <2>2. CASE q = r
    BY <1>4, <1>5, <1>6, <2>2 DEF Comes, Uploads, Removes, Leaves, OnLoop, Dropping, Holding, AtWork
  <2> QED
    BY <2>1, <2>2
<1>10. Agreed /\ Attended
  BY <1>1 DEF SequentialInv
<1>11. \A a \in Requests : ~InHand(a, {"remove"}) /\ ~InHand(a, {"revoke", "remove"})
  BY <1>2 DEF InHand
<1>12. \A a \in Requests : (~InHand(a, {"remove"}) /\ ~InHand(a, {"revoke", "remove"}))'
  BY <1>7 DEF InHand
<1>13. \A a \in Requests : asset[a] # "none" => a # r
  BY <1>3
<1>14. Agreed'
  <2>1. ASSUME NEW a \in Requests
        PROVE  /\ (asset[a] = "active" <=> Kept(a) \/ pc[a] = "add_grant")'
               /\ (a \in grants <=> Kept(a) /\ ~InHand(a, {"remove"}))'
               /\ (a \in index <=> /\ Kept(a) \/ pc[a] \in {"transit", "activate", "store_active", "add_grant"}
                                   /\ ~InHand(a, {"revoke", "remove"}))'
    <3>1. /\ pc[a] \in {"idle", "done"} /\ (Kept(a)' <=> Kept(a))
          /\ pc'[a] \notin {"transit", "activate", "store_active", "add_grant"}
      BY <1>2, <1>4, <1>7 DEF Kept
    <3>2. /\ asset[a] = "active" <=> Kept(a)
          /\ a \in grants <=> Kept(a)
          /\ a \in index <=> Kept(a)
      BY <1>10, <1>11, <3>1 DEF Agreed
    <3> QED
      BY <1>4, <1>12, <3>1, <3>2
  <2>2. Unique'
    BY <1>4, <1>10, <1>13 DEF Agreed, Unique, FileOf
  <2> QED
    BY <2>1, <2>2 DEF Agreed, Unique
<1>15. Attended'
  BY <1>4, <1>10, <1>13 DEF Attended, Owner
<1> QED
  BY <1>8, <1>9, <1>14, <1>15 DEF SequentialInv

LEMMA LoginAlone ==
  ASSUME InterleavedInv, SequentialInv, NEW s \in Sessions, Login(s)
  PROVE  SequentialInv'
<1>1. /\ session' = [session EXCEPT ![s] = "live"]
      /\ UNCHANGED <<asset, version, index, grants, pc, call, reply, local, cited,
                     removed, gone, overlap>>
  BY DEF Login, history
<1>2. session \in [Sessions -> {"new", "live", "closed"}]
  BY DEF InterleavedInv, TypeOK
<1>3. \A q \in Sessions : session[q] = "live" => session'[q] = "live"
  BY <1>1, <1>2
<1>4. (Alone /\ Agreed)'
  BY <1>1 DEF SequentialInv, Alone, Agreed, AtWork, Kept, InHand, FileOf
<1>5. ASSUME NEW r \in Requests PROVE (Uploads(r) /\ Removes(r) /\ Leaves(r))'
  <2>1. Uploads(r) /\ Removes(r) /\ Leaves(r)
    BY DEF SequentialInv
  <2>2. AtWork(r) => call[r].session \in Sessions
    BY CallFacts DEF InterleavedInv, Placed, AtWork
  <2>3. (Uploads(r) /\ Removes(r))'
    BY <1>1, <2>1 DEF Uploads, Removes, Chosen, FileOf, Owner
  <2> QED
    BY <1>1, <1>3, <2>1, <2>2, <2>3 DEF Leaves, Chosen, Owner, AtWork
<1>6. Attended'
  BY <1>1, <1>3 DEF SequentialInv, Attended, Owner
<1> QED
  BY <1>4, <1>5, <1>6 DEF SequentialInv

-----------------------------------------------------------------------------
(***************************************************************************)
(* The theorems.                                                           *)
(***************************************************************************)
LEMMA InitInductive == Init => Inductive
<1> SUFFICES ASSUME Init PROVE Inductive
  OBVIOUS
<1>1. InterleavedInv
  BY InterleavedInit
<1>2. SequentialInv
  BY DEF Init, SequentialInv, Alone, Agreed, Uploads, Removes, Leaves, Attended, AtWork, Kept,
     InHand, OnLoop, Dropping, Holding
<1> QED
  BY <1>1, <1>2 DEF Inductive

LEMMA HandlerKeeps ==
  ASSUME Inductive, NEW r \in Requests, UploadStep(r) \/ DropStep(r) \/ QueryStep(r) \/ ScanRaises(r)
  PROVE  Inductive'
<1>1. InterleavedInv /\ (~overlap => SequentialInv)
  BY DEF Inductive
<1>2. overlap' = overlap
  BY DEF UploadStep, UploadRead, UploadCreate, UploadParse, UploadSliceRead, UploadSliceStore,
     UploadTransit, UploadActivate, UploadStoreActive, UploadGrant, DropStep, DeleteFind, LogoutList,
     DropNext, DropRead, DropStore, DropGrants, DropAsset, SignOut, QueryStep, QueryFind,
     QueryAuthorize, QueryCheckGrant, QueryScopeGrants, QueryScopeAssets, QuerySearch,
     QueryReferences, QueryGenerate, ScanRaises, ReadIndex, history
<1>3. CASE UploadStep(r)
  <2>1. InterleavedInv'
    BY <1>1, <1>3, UploadQuiet, UploadCreateKeeps, UploadSliceStoreKeeps, UploadTransitKeeps,
       UploadStoreActiveKeeps, UploadGrantKeeps DEF UploadStep
  <2>2. ~overlap => SequentialInv'
    BY <1>1, <1>3, UploadReadAlone, UploadParseAlone, UploadCreateAlone, UploadWriteAlone
       DEF UploadStep
  <2> QED
    BY <1>2, <2>1, <2>2 DEF Inductive
<1>4. CASE DropStep(r)
  <2>1. InterleavedInv'
    BY <1>1, <1>4, DeleteFindKeeps, LogoutListKeeps, DropNextKeeps, DropSliceKeeps,
       DropGrantsKeeps, DropAssetKeeps, SignOutKeeps DEF DropStep
  <2>2. ~overlap => SequentialInv'
    BY <1>1, <1>4, DeleteFindAlone, LogoutListAlone, DropNextAlone, DropReadAlone, DropStoreAlone,
       DropAssetAlone, SignOutAlone DEF DropStep
  <2> QED
    BY <1>2, <2>1, <2>2 DEF Inductive
<1>5. CASE QueryStep(r)
  <2>1. InterleavedInv'
    BY <1>1, <1>5, QueryFindKeeps, QueryAuthorizeKeeps, QueryGrantKeeps, QueryScopeKeeps,
       QuerySearchKeeps, QueryGenerateKeeps DEF QueryStep
  <2>2. ~overlap => SequentialInv'
    BY <1>1, <1>5, QueryAlone
  <2> QED
    BY <1>2, <2>1, <2>2 DEF Inductive
<1>6. CASE ScanRaises(r)
  BY <1>1, <1>2, <1>6, ScanRaisesKeeps, ScanRaisesNever DEF Inductive
<1> QED
  BY <1>3, <1>4, <1>5, <1>6

LEMMA NextKeeps == Inductive /\ [Next]_vars => Inductive'
<1> SUFFICES ASSUME Inductive, [Next]_vars PROVE Inductive'
  OBVIOUS
<1>1. ASSUME NEW s \in Sessions, Login(s) PROVE Inductive'
  <2>1. overlap' = overlap
    BY <1>1 DEF Login, history
  <2> QED
    BY <1>1, <2>1, LoginKeeps, LoginAlone DEF Inductive
<1>2. ASSUME NEW r \in Requests, Arrive(r) PROVE Inductive'
  BY <1>2, ArriveKeeps, ArriveAlone DEF Inductive
<1>3. CASE UNCHANGED vars
  <2>1. UNCHANGED <<session, asset, version, index, grants, pc, call, reply, local, cited,
                    removed, gone, overlap>>
    BY <1>3 DEF vars, server, history
  <2>2. InterleavedInv'
    BY <2>1 DEF Inductive, InterleavedInv, TypeOK, Placed, Made, Drops, Answers, Past, Mine, MayCite,
       OwnOrOutlived, UploadedOnce, Owner, FileOf
  <2>3. SequentialInv => SequentialInv'
    BY <2>1 DEF SequentialInv, Alone, Agreed, Uploads, Removes, Leaves, Attended, AtWork, Kept,
       InHand, Chosen, Owner, FileOf
  <2> QED
    BY <2>1, <2>2, <2>3 DEF Inductive
<1> QED
  BY <1>1, <1>2, <1>3, HandlerKeeps DEF Next

\* What every handler may rely on, in any interleaving, and what besides as long as no
\* request overlapped another.
THEOREM InductiveInvariant == Spec => []Inductive
  BY InitInductive, NextKeeps, PTL DEF Spec

\* Every variable keeps its type.
THEOREM TypeCorrect == Spec => []TypeOK
<1>1. Inductive => TypeOK
  BY DEF Inductive, InterleavedInv
<1> QED
  BY <1>1, InductiveInvariant, PTL

\* Whatever a concurrent upload writes again and however late the index is updated, a query
\* that comes after delete_knowledge_file (or a logout) removed a file does not cite it.
THEOREM DeletedFilesNeverAnswer == Spec => []DeletedNeverAnswers
<1>1. Inductive => DeletedNeverAnswers
  <2>1. ASSUME Inductive, NEW r \in Requests, NEW a \in cited[r] PROVE a \notin gone[r]
    BY <2>1 DEF Inductive, InterleavedInv, Answers, MayCite
  <2> QED
    BY <2>1 DEF DeletedNeverAnswers
<1> QED
  BY <1>1, InductiveInvariant, PTL

\* An answer cites its user's own files; another's only where requests overlapped and its
\* user once uploaded a file of that name, whose grant may have outlived it.
THEOREM AnswersCiteOwnFiles == Spec => []AnswersOwnFiles
<1>1. Inductive => AnswersOwnFiles
  <2>1. ASSUME Inductive, NEW r \in Requests, NEW a \in cited[r] PROVE OwnOrOutlived(r, a)
    BY <2>1 DEF Inductive, InterleavedInv, Answers, MayCite
  <2> QED
    BY <2>1 DEF AnswersOwnFiles, OwnOrOutlived, UploadedOnce
<1> QED
  BY <1>1, InductiveInvariant, PTL

\* One request after another: records, grants and index agree on the uploads that
\* succeeded and were not removed, and with clear_uploads_on_logout whoever has no session
\* left has no file left.
THEOREM RecordsAndIndexAgree == Spec => []RecordsAgree
<1>1. Inductive => RecordsAgree
  <2>1. SUFFICES ASSUME Inductive, InFlight = {}, ~overlap
                 PROVE  LET kept == {a \in Requests : reply[a] = "uploaded"} \ removed
                        IN  /\ index = kept
                            /\ grants = kept
                            /\ kept = {a \in Requests : asset[a] = "active"}
                            /\ ClearOnLogout =>
                                 \A a \in Requests : asset[a] # "none" =>
                                   \E s \in Sessions : session[s] = "live" /\ UserOf[s] = Owner(a)
    BY DEF RecordsAgree
  <2>2. TypeOK /\ Agreed /\ Attended
    BY <2>1 DEF Inductive, InterleavedInv, SequentialInv
  <2>3. \A q \in Requests : pc[q] \in {"idle", "done"}
    BY <2>1 DEF InFlight
  <2>4. \A a \in Requests : /\ asset[a] = "active" <=> Kept(a)
                            /\ a \in grants <=> Kept(a)
                            /\ a \in index <=> Kept(a)
    BY <2>2, <2>3 DEF Agreed, InHand
  <2>5. index \subseteq Requests /\ grants \subseteq Requests
    BY <2>2 DEF TypeOK
  <2>6. Attended
    BY <2>2
  <2> QED
    BY <2>4, <2>5, <2>6 DEF Kept, Attended
<1> QED
  BY <1>1, InductiveInvariant, PTL

\* What goes from the index and from the grants in a step goes in one of three.
LEMMA WhoDrops ==
  ASSUME Next
  PROVE  \/ index' = index /\ grants \subseteq grants'
         \/ \E q \in Requests : UploadSliceStore(q) \/ DropStore(q) \/ DropGrants(q)
<1>1. ASSUME NEW q \in Requests, UploadStep(q), ~UploadSliceStore(q)
      PROVE  index' = index /\ grants \subseteq grants'
  BY <1>1 DEF UploadStep, UploadRead, UploadCreate, UploadParse, UploadSliceRead,
     UploadTransit, UploadActivate, UploadStoreActive, UploadGrant, ReadIndex, server
<1>2. ASSUME NEW q \in Requests, DropStep(q), ~DropStore(q), ~DropGrants(q)
      PROVE  index' = index /\ grants \subseteq grants'
  BY <1>2 DEF DropStep, DeleteFind, LogoutList, DropNext, DropRead, DropAsset, SignOut, ReadIndex,
     server
<1>3. ASSUME NEW q \in Requests, QueryStep(q) \/ ScanRaises(q) \/ Arrive(q)
      PROVE  index' = index /\ grants \subseteq grants'
  BY <1>3 DEF QueryStep, QueryFind, QueryAuthorize, QueryCheckGrant, QueryScopeGrants,
     QueryScopeAssets, QuerySearch, QueryReferences, QueryGenerate, ScanRaises, Arrive, server
<1>4. ASSUME NEW s \in Sessions, Login(s)
      PROVE  index' = index /\ grants \subseteq grants'
  BY <1>4 DEF Login
<1> QED
  BY <1>1, <1>2, <1>3, <1>4 DEF Next

\* delete_knowledge_file, a logout's clearing and an upload take away nobody else's slice or
\* grant, as long as no request overlapped another.
THEOREM DeletesTouchOnlyOwn == Spec => DeletesOnlyOwn
<1>1. ASSUME Inductive, Next, NEW r \in Requests, ~overlap, pc[r] # pc'[r],
             NEW a \in (index \ index') \cup (grants \ grants')
      PROVE  Owner(a) = Owner(r)
  <2>1. InterleavedInv /\ SequentialInv /\ TypeOK
    BY <1>1 DEF Inductive, InterleavedInv
  <2>2. PICK q \in Requests : UploadSliceStore(q) \/ DropStore(q) \/ DropGrants(q)
    BY <1>1, WhoDrops
  <2>3. AtWork(q) /\ pc[q] \in {"slice_store", "drop_store", "revoke"}
    BY <2>2 DEF UploadSliceStore, DropStore, DropGrants, AtWork
  <2>4. r = q
    BY <1>1, <2>1, <2>2 DEF UploadSliceStore, DropStore, DropGrants, Go, Goto, TypeOK
  <2>5. Uploads(q) /\ Removes(q) /\ AgreedFor(q) /\ Unique
    BY <2>1, <2>3, AloneFacts
  <2>6. pc[q] \in Holding => /\ local[q].item \in Requests /\ Owner(local[q].item) = Owner(q)
                             /\ asset[local[q].item] # "none"
    BY <2>1, <2>3, <2>5, AtWorkFacts DEF Drops, Mine, Removes, Chosen, Dropping
  <2>7. CASE UploadSliceStore(q)
    BY <1>1, <2>5, <2>7 DEF UploadSliceStore, Uploads
  <2>8. CASE DropStore(q)
    <3>1. a = local[q].item
      BY <1>1, <2>5, <2>8 DEF DropStore, Uploads
    <3> QED
      BY <2>4, <2>6, <2>8, <3>1 DEF DropStore, Holding
  <2>9. CASE DropGrants(q)
    <3>1. a \in Requests /\ a \in grants /\ FileOf(a) = FileOf(local[q].item)
      BY <1>1, <2>1, <2>9 DEF DropGrants, Covering, TypeOK
    <3>2. asset[a] = "active" /\ pc[q] \in Holding
      BY <2>5, <2>9, <3>1 DEF AgreedFor, DropGrants, Holding
    <3>3. a = local[q].item
      BY <2>5, <2>6, <3>1, <3>2 DEF Unique
    <3> QED
      BY <2>4, <2>6, <3>2, <3>3
  <2> QED
    BY <2>2, <2>7, <2>8, <2>9
<1>2. Inductive /\ [Next]_vars =>
        [\A r \in Requests : ~overlap /\ pc[r] # pc'[r] /\ call[r] # None =>
           \A a \in (index \ index') \cup (grants \ grants') : Owner(a) = Owner(r)]_vars
  BY <1>1
<1> QED
  BY <1>2, InductiveInvariant, PTL DEF Spec, DeletesOnlyOwn
=============================================================================
