---------------------- MODULE ControlledDirectoryProofs ----------------------
(***************************************************************************)
(* Theorems about ControlledDirectory for every set of paths and plans and *)
(* every number of uploads, operations and threads: its invariants.        *)
(***************************************************************************)
EXTENDS ControlledDirectory, FiniteSetTheorems, WellFoundedInduction, TLAPS
-----------------------------------------------------------------------------
(***************************************************************************)
(* The inductive invariant.                                                *)
(***************************************************************************)
\* A plan that has not begun is at its first operation.
Shapes ==
  /\ DOMAIN ops = Plans /\ DOMAIN snaps = Plans /\ DOMAIN took = Plans
  /\ at \in [Plans -> Nat]
  /\ \A p \in Plans : stage[p] \in {"absent", "pending"} => at[p] = 1

\* A file, a version and the record of it have numbers that were given out.
Numbered ==
  /\ \A a \in Uploads : assetPath[a] # None => active[a] \in 1 .. uploaded
  /\ upload.step \in {"probe", "write"} => uploaded < MaxUploads
  /\ upload.step = "register" => uploaded # 0
  /\ \A x \in Paths : disk[x] <= uploaded

\* A file is at one path, for nothing copies one.  Two files may have the same bytes.
OneCopy == \A x, y \in Paths : disk[x] = disk[y] /\ disk[x] # Nothing => x = y

\* A plan's snapshots are of versions that records had.
Created ==
  \A p \in Plans : stage[p] # "absent" => \A i \in DOMAIN ops[p] :
    assetPath[snaps[p][i].asset] # None /\ snaps[p][i].version \in 1 .. uploaded

IsMove(p, i) == ops[p][i].type = "move_rename"

\* File f was uploaded to path x, or a move brought it there.
CameTo(f, x) ==
  \/ origin[f] = x
  \/ \E q \in Plans : \E j \in DOMAIN ops[q] :
       MoveRan(q, j) /\ ops[q][j].target = x /\ took[q][j] = f

\* No file is at a path, or was taken from one, without having come there.
Traced ==
  /\ \A x \in Paths : disk[x] # Nothing => CameTo(disk[x], x)
  /\ \A p \in Plans : \A i \in DOMAIN ops[p] : MoveRan(p, i) =>
       took[p][i] \in 1 .. uploaded /\ CameTo(took[p][i], ops[p][i].source)

\* The read-back found operation i of plan p done.
Checked(p, i) ==
  \/ stage[p] = "verify" /\ i < at[p]
  \/ stage[p] \in {"apply", "verified"}

\* Two moves of one version from one path, neither of them back onto it.
Rivals(p, i, q, j) ==
  /\ <<p, i>> # <<q, j>> /\ IsMove(p, i) /\ IsMove(q, j)
  /\ snaps[p][i] = snaps[q][j] /\ ops[p][i].source = ops[q][j].source
  /\ ops[p][i].source \notin {ops[p][i].target, ops[q][j].target}

\* Another move, or an upload of the same bytes, brought a file to one of the rivals' paths.
Disturbed(p, i, q, j) ==
  LET paths == {ops[p][i].source, ops[p][i].target, ops[q][j].target}
  IN  \/ \E r \in Plans : \E k \in DOMAIN ops[r] :
           MoveRan(r, k) /\ <<r, k>> \notin {<<p, i>>, <<q, j>>} /\ ops[r][k].target \in paths
      \/ \E u \in 1 .. uploaded \ {snaps[p][i].version} :
           Same(u, snaps[p][i].version) /\ origin[u] \in paths

\* Of two rivals one is checked, for the version is at one target only.
Duel(p, i, q, j) ==
  /\ Ran(p, i) /\ (IF ops[p][i].target = ops[q][j].target THEN Ran(q, j) ELSE Checked(q, j))
       => disk[ops[p][i].target] # snaps[p][i].version
  /\ ~(Checked(p, i) /\ Checked(q, j))

Duels ==
  \A p, q \in Plans : stage[p] # "absent" /\ stage[q] # "absent" =>
    \A i \in DOMAIN ops[p], j \in DOMAIN ops[q] :
      Rivals(p, i, q, j) /\ ~Disturbed(p, i, q, j) => Duel(p, i, q, j)

\* A move led to path s.
Returned(s) == \E q \in Plans : \E j \in DOMAIN ops[q] : MoveRan(q, j) /\ ops[q][j].target = s

\* The version of a move that ran has left its source for good, unless a move led back.
Left ==
  \A p \in Plans : \A i \in DOMAIN ops[p] :
    MoveRan(p, i) /\ ~Returned(ops[p][i].source) => disk[ops[p][i].source] # snaps[p][i].version

\* A move back onto its own path is never found done.
Apart ==
  \A p \in Plans : \A i \in DOMAIN ops[p] :
    IsMove(p, i) /\ Checked(p, i) => ops[p][i].target # ops[p][i].source

Gone(c) == \A x \in Paths : disk[x] # c

\* A move took file c from path s.
TakenFrom(s, c) ==
  \E q \in Plans : \E j \in DOMAIN ops[q] :
    MoveRan(q, j) /\ ops[q][j].source = s /\ took[q][j] = c

\* A move for asset a brought another file than c to path s.
OtherMoveTo(s, c, a) ==
  \E q \in Plans : \E j \in DOMAIN ops[q] :
    /\ MoveRan(q, j) /\ ops[q][j].target = s
    /\ snaps[q][j].asset = a /\ took[q][j] # c

Stays(s, c) == disk[s] = c \/ Gone(c) \/ TakenFrom(s, c)

Located(s, c, a) == Stays(s, c) \/ OtherMoveTo(s, c, a)

\* Where a file is looked for it is, unless it is nowhere or a move explains it.
Whereabouts ==
  /\ \A a \in Uploads : assetPath[a] # None => Located(assetPath[a], active[a], a)
  /\ upload.step = "register" => Stays(upload.path, uploaded)
  /\ \A p \in Plans : stage[p] # "absent" => \A i \in DOMAIN ops[p] :
       LET s == ops[p][i].source
           c == snaps[p][i].version
           a == snaps[p][i].asset
       IN  /\ Located(s, c, a)
           /\ IsMove(p, i) /\ Ran(p, i) => Stays(ops[p][i].target, took[p][i])
           /\ ops[p][i].type = "trash" /\ Ran(p, i) =>
                Gone(c) \/ TakenFrom(s, c) \/ OtherMoveTo(s, c, a)

\* One handler is at work at a time as long as none overlapped.
Alone ==
  ~overlap => \A p \in Plans : stage[p] \in Running =>
                upload = Idle /\ \A q \in Plans \ {p} : stage[q] \notin Running

Matches(p, i) ==
  /\ IsMove(p, i) =>
       /\ Same(disk[ops[p][i].target], snaps[p][i].version)
       /\ disk[ops[p][i].source] = Nothing
  /\ ops[p][i].type = "trash" => disk[ops[p][i].source] = Nothing
  /\ ops[p][i].type = "upload" => Same(disk[ops[p][i].source], snaps[p][i].version)

\* Plan p empties the path of asset a, moves a file onto it, or, for another asset's record,
\* the file away.
Disturbs(p, i, a) ==
  \/ ops[p][i].type = "trash" /\ ops[p][i].source = assetPath[a]
  \/ /\ IsMove(p, i) /\ snaps[p][i].asset # a
     /\ \/ ops[p][i].target = assetPath[a]
        \/ ops[p][i].source = assetPath[a] /\ TakesAnother(p, i, a)

\* A plan is to blame for what is, or is not, at the path of asset a.
Excused(a) ==
  \E p \in Plans : \E i \in DOMAIN ops[p] :
    \/ stage[p] \in {"failed", "mismatch"} /\ Touched(p, i, assetPath[a])
    \/ stage[p] = "verified" /\ Disturbs(p, i, a)

Agreed(a) == Same(disk[assetPath[a]], active[a]) \/ Excused(a)

AllAgreed == \A a \in Uploads : assetPath[a] # None => Agreed(a)

Moves(p, a) == \E i \in DOMAIN ops[p] : IsMove(p, i) /\ snaps[p][i].asset = a

\* A move of the plan took the file of asset a, and what it was approved to move is not at
\* its target.
Strayed(p, a) ==
  \E j \in DOMAIN ops[p] :
    /\ MoveRan(p, j) /\ ops[p][j].source = assetPath[a]
    /\ disk[ops[p][j].source] = Nothing
    /\ ~Same(disk[ops[p][j].target], snaps[p][j].version)

\* An asset the plan does not move agrees, or it is excused, or the plan will not verify.
Bystanders(p) ==
  \A a \in Uploads : assetPath[a] # None /\ ~Moves(p, a) =>
    Agreed(a) \/ (\E i \in DOMAIN ops[p] : Disturbs(p, i, a)) \/ Strayed(p, a)

\* Before the plan renames records, one that disagrees has a path that it touched.
Framed(p) ==
  \A a \in Uploads : assetPath[a] # None =>
    Agreed(a) \/ \E i \in DOMAIN ops[p] : Touched(p, i, assetPath[a])

\* The record of asset a has the target of one of the plan's moves of it.
Renamed(p, a) ==
  \E j \in DOMAIN ops[p] :
    IsMove(p, j) /\ snaps[p][j].asset = a /\ assetPath[a] = ops[p][j].target

AtWork(p) ==
  /\ SnapshotsMatch(p) /\ Bystanders(p)
  /\ stage[p] \in {"execute", "verify"} => Framed(p)
  /\ \A i \in DOMAIN ops[p] :
       /\ Checked(p, i) => Matches(p, i)
       /\ stage[p] = "apply" /\ i < at[p] /\ IsMove(p, i) => Renamed(p, snaps[p][i].asset)

\* The directory as long as no handler overlapped another.
Sequential ==
  /\ upload # Idle => AssetsAt(upload.path) = {}
  /\ upload.step = "register" => disk[upload.path] = uploaded
  /\ (\A p \in Plans : stage[p] \notin Running) => AllAgreed
  /\ \A p \in Plans : stage[p] \in Running => AtWork(p)

Inductive ==
  /\ TypeOK /\ Shapes /\ Numbered /\ OneCopy /\ Created
  /\ Traced /\ Left /\ Apart /\ Duels /\ Whereabouts
  /\ Alone /\ (~overlap => Sequential)
-----------------------------------------------------------------------------
(***************************************************************************)
(* What the plans of a state are, and what a step does to them.            *)
(***************************************************************************)
\* A created plan is a sequence of operations on paths with a snapshot for each.
LEMMA PlanFacts ==
  ASSUME TypeOK, NEW p \in Plans, stage[p] # "absent"
  PROVE  /\ Len(ops[p]) \in Nat \ {0} /\ DOMAIN ops[p] = 1 .. Len(ops[p])
         /\ at[p] \in 1 .. Len(ops[p])
         /\ \A i \in DOMAIN ops[p] :
              /\ ops[p][i] \in Operations
              /\ ops[p][i].type \in {"move_rename", "trash", "upload"}
              /\ ops[p][i].source \in Paths
              /\ ops[p][i].type = "move_rename" => ops[p][i].target \in Paths
              /\ snaps[p][i].asset \in Uploads /\ snaps[p][i].version \in Uploads
         /\ took[p] \in [DOMAIN ops[p] -> Files]
<1>1. PICK k \in 1 .. MaxOps : ops[p] \in [1 .. k -> Operations]
  BY DEF TypeOK, SeqsUpTo
<1>2. k \in Nat \ {0}
  BY ControlledDirectoryAssumption DEF ControlledDirectoryAssumption
<1>3. ops[p] \in Seq(Operations) /\ Len(ops[p]) = k
  BY <1>1, <1>2
<1>4. /\ at[p] \in DOMAIN ops[p] /\ snaps[p] \in [DOMAIN ops[p] -> Snapshots]
      /\ took[p] \in [DOMAIN ops[p] -> Files]
  BY DEF TypeOK
<1>5. \A i \in DOMAIN ops[p] : ops[p][i] \in Operations
  BY <1>1
<1>6. \A o \in Operations : /\ o.type \in {"move_rename", "trash", "upload"} /\ o.source \in Paths
                            /\ o.type = "move_rename" => o.target \in Paths
  BY DEF Operations
<1>7. \A i \in DOMAIN ops[p] : snaps[p][i].asset \in Uploads /\ snaps[p][i].version \in Uploads
  BY <1>4 DEF Snapshots
<1> QED
  BY <1>1, <1>2, <1>3, <1>4, <1>5, <1>6, <1>7

\* The thread of a plan goes to its next operation, or from its last one to the next phase.
LEMMA AdvanceFacts ==
  ASSUME TypeOK, Shapes, NEW p \in Plans, stage[p] \in Running,
         NEW phase \in Stages, Advance(p, phase)
  PROVE  /\ stage' \in [Plans -> Stages] /\ at' \in [Plans -> Nat]
         /\ \A q \in Plans \ {p} : stage'[q] = stage[q] /\ at'[q] = at[q]
         /\ at'[p] \in DOMAIN ops[p]
         /\ \/ at[p] < Len(ops[p]) /\ at'[p] = at[p] + 1 /\ stage'[p] = stage[p]
            \/ at[p] = Len(ops[p]) /\ at'[p] = 1 /\ stage'[p] = phase
<1>1. stage[p] # "absent"
  BY DEF Running
<1>2. /\ Len(ops[p]) \in Nat \ {0} /\ DOMAIN ops[p] = 1 .. Len(ops[p])
      /\ at[p] \in 1 .. Len(ops[p])
  BY <1>1, PlanFacts
<1>3. stage \in [Plans -> Stages] /\ at \in [Plans -> Nat]
  BY DEF TypeOK, Shapes
<1> QED
  BY <1>2, <1>3 DEF Advance

\* A plan that is done with or fails stays where it was.
LEMMA ConcludeFacts ==
  ASSUME TypeOK, Shapes, NEW p \in Plans, NEW result \in Stages, Conclude(p, result)
  PROVE  /\ stage' \in [Plans -> Stages] /\ at' = at /\ stage'[p] = result
         /\ \A q \in Plans \ {p} : stage'[q] = stage[q]
  BY DEF TypeOK, Conclude

\* An execution step carries out the operation its thread is at, or fails.
LEMMA ExecuteFacts ==
  ASSUME TypeOK, Shapes, NEW p \in Plans, Execute(p)
  PROVE  /\ stage[p] = "execute" /\ stage' \in [Plans -> Stages] /\ at' \in [Plans -> Nat]
         /\ \A q \in Plans \ {p} : stage'[q] = stage[q] /\ at'[q] = at[q]
         /\ \/ stage'[p] = "failed" /\ at'[p] = at[p] /\ disk' = disk /\ took' = took
            \/ /\ \/ at[p] < Len(ops[p]) /\ at'[p] = at[p] + 1 /\ stage'[p] = "execute"
                  \/ at[p] = Len(ops[p]) /\ at'[p] = 1 /\ stage'[p] = "verify"
               /\ \/ /\ Op(p).type = "move_rename" /\ disk[Op(p).source] # Nothing
                     /\ disk' = [disk EXCEPT ![Op(p).source] = Nothing,
                                             ![Op(p).target] = disk[Op(p).source]]
                     /\ took' = [took EXCEPT ![p][at[p]] = disk[Op(p).source]]
                  \/ /\ Op(p).type = "trash" /\ disk' = [disk EXCEPT ![Op(p).source] = Nothing]
                     /\ took' = took
                  \/ Op(p).type = "upload" /\ disk' = disk /\ took' = took
<1>1. stage[p] = "execute" /\ stage[p] \in Running /\ "verify" \in Stages /\ "failed" \in Stages
  BY DEF Execute, Running, Stages
<1>2. at \in [Plans -> Nat]
  BY DEF Shapes
<1>3. CASE Conclude(p, "failed") /\ UNCHANGED <<disk, took>>
  BY <1>1, <1>2, <1>3, ConcludeFacts
<1>4. CASE Advance(p, "verify")
  <2>1. \/ /\ Op(p).type = "move_rename" /\ disk[Op(p).source] # Nothing
           /\ disk' = [disk EXCEPT ![Op(p).source] = Nothing,
                                   ![Op(p).target] = disk[Op(p).source]]
           /\ took' = [took EXCEPT ![p][at[p]] = disk[Op(p).source]]
        \/ /\ Op(p).type = "trash" /\ disk' = [disk EXCEPT ![Op(p).source] = Nothing]
           /\ took' = took
        \/ Op(p).type = "upload" /\ disk' = disk /\ took' = took
        \/ Conclude(p, "failed") /\ UNCHANGED <<disk, took>>
    BY DEF Execute, Move, Trash, Keep
  <2> QED
    BY <1>1, <1>3, <1>4, <2>1, AdvanceFacts
<1> QED
  BY <1>3, <1>4 DEF Execute, Move, Trash, Keep

\* Only a move is on record with the file it took.
LEMMA TookFacts ==
  ASSUME TypeOK, Shapes, NEW p \in Plans, Execute(p)
  PROVE  /\ DOMAIN took' = Plans /\ took'[p] \in [DOMAIN ops[p] -> Files]
         /\ \A q \in Plans \ {p} : took'[q] = took[q]
         /\ \A i \in DOMAIN ops[p] \ {at[p]} : took'[p][i] = took[p][i]
<1>1. stage[p] # "absent"
  BY DEF Execute
<1>2. /\ took[p] \in [DOMAIN ops[p] -> Files] /\ at[p] \in DOMAIN ops[p]
      /\ Op(p).source \in Paths
  BY <1>1, PlanFacts DEF Op
<1>3. DOMAIN took = Plans /\ disk[Op(p).source] \in Files
  BY <1>2 DEF Shapes, TypeOK
<1>4. took' = took \/ took' = [took EXCEPT ![p][at[p]] = disk[Op(p).source]]
  BY ExecuteFacts
<1> QED
  BY <1>2, <1>3, <1>4

\* A thread verifies one operation, applies one, or begins at the first.
LEMMA VerifyFacts ==
  ASSUME TypeOK, Shapes, NEW p \in Plans, Verify(p)
  PROVE  /\ stage[p] = "verify" /\ stage' \in [Plans -> Stages] /\ at' \in [Plans -> Nat]
         /\ \A q \in Plans \ {p} : stage'[q] = stage[q] /\ at'[q] = at[q]
         /\ \/ stage'[p] = "mismatch" /\ at'[p] = at[p]
            \/ /\ Matches(p, at[p])
               /\ \/ at[p] < Len(ops[p]) /\ at'[p] = at[p] + 1 /\ stage'[p] = "verify"
                  \/ at[p] = Len(ops[p]) /\ at'[p] = 1 /\ stage'[p] = "apply"
<1>1. stage[p] = "verify" /\ stage[p] \in Running /\ "apply" \in Stages /\ "mismatch" \in Stages
  BY DEF Verify, Running, Stages
<1>2. at \in [Plans -> Nat]
  BY DEF Shapes
<1>3. CASE Conclude(p, "mismatch")
  BY <1>1, <1>2, <1>3, ConcludeFacts
<1>4. CASE EntryMatches(p) /\ Advance(p, "apply")
  <2>1. stage[p] # "absent"
    BY <1>1
  <2>2. Op(p).type \in {"move_rename", "trash", "upload"}
    BY <2>1, PlanFacts DEF Op
  <2>3. Matches(p, at[p])
    BY <1>4, <2>2 DEF Matches, EntryMatches, IsMove, Op, Snap
  <2> QED
    BY <1>1, <1>4, <2>3, AdvanceFacts
<1> QED
  BY <1>3, <1>4 DEF Verify

LEMMA ApplyFacts ==
  ASSUME TypeOK, Shapes, NEW p \in Plans, Apply(p)
  PROVE  /\ stage[p] = "apply" /\ stage' \in [Plans -> Stages] /\ at' \in [Plans -> Nat]
         /\ \A q \in Plans \ {p} : stage'[q] = stage[q] /\ at'[q] = at[q]
         /\ \/ at[p] < Len(ops[p]) /\ at'[p] = at[p] + 1 /\ stage'[p] = "apply"
            \/ at[p] = Len(ops[p]) /\ at'[p] = 1 /\ stage'[p] = "verified"
<1>1. stage[p] = "apply" /\ stage[p] \in Running /\ "verified" \in Stages
  BY DEF Apply, Running, Stages
<1> QED
  BY <1>1, AdvanceFacts DEF Apply

LEMMA StartFacts ==
  ASSUME TypeOK, Shapes, NEW p \in Plans, Start(p)
  PROVE  /\ stage[p] = "pending" /\ stage'[p] = "execute" /\ at' = at /\ at[p] = 1
         /\ stage' \in [Plans -> Stages] /\ \A q \in Plans \ {p} : stage'[q] = stage[q]
  BY DEF TypeOK, Shapes, Start, Stages, Running

\* A plan is created with a snapshot of the oldest record at each source.
LEMMA CreateFacts ==
  ASSUME TypeOK, Shapes, NEW p \in Plans, CreatePlan(p)
  PROVE  /\ stage[p] = "absent" /\ stage'[p] = "pending" /\ at' = at /\ at[p] = 1
         /\ stage' \in [Plans -> Stages] /\ DOMAIN ops' = Plans /\ DOMAIN snaps' = Plans
         /\ DOMAIN took' = Plans /\ took'[p] = [i \in DOMAIN ops'[p] |-> Nothing]
         /\ \A q \in Plans \ {p} :
              /\ stage'[q] = stage[q] /\ ops'[q] = ops[q]
              /\ snaps'[q] = snaps[q] /\ took'[q] = took[q]
         /\ ops'[p] \in SeqsUpTo(Operations, MaxOps)
         /\ snaps'[p] = [i \in DOMAIN ops'[p] |->
              [asset |-> AssetAt(ops'[p][i].source),
               version |-> active[AssetAt(ops'[p][i].source)]]]
         /\ \A i \in DOMAIN ops'[p] : AssetsAt(ops'[p][i].source) # {}
  BY DEF TypeOK, Shapes, CreatePlan, Stages

\* Uploads leave the plans alone; only the other steps are a plan's.
LEMMA NextKinds ==
  ASSUME [Next]_vars
  PROVE  \/ \E p \in Plans : CreatePlan(p) \/ Start(p) \/ Execute(p) \/ Verify(p) \/ Apply(p)
         \/ /\ UploadCheck \/ UploadProbe \/ UploadWrite \/ UploadRegister \/ UNCHANGED vars
            /\ UNCHANGED plans
<1>1. UploadCheck => UNCHANGED plans
  BY ZenonT(20) DEF UploadCheck
<1>2. UploadProbe => UNCHANGED plans
  BY ZenonT(20) DEF UploadProbe
<1>3. UploadWrite => UNCHANGED plans
  BY ZenonT(20) DEF UploadWrite
<1>4. UploadRegister => UNCHANGED plans
  BY ZenonT(20) DEF UploadRegister
<1>5. UNCHANGED vars => UNCHANGED plans
  BY DEF vars
<1> QED
  BY <1>1, <1>2, <1>3, <1>4, <1>5 DEF Next

\* Created plans keep what they were created with, and their threads only get on: an
\* operation becomes carried out, and checked, by the thread that is at it.
LEMMA Progress ==
  ASSUME TypeOK, Shapes, [Next]_vars, NEW p \in Plans
  PROVE  /\ stage[p] # "absent" =>
              /\ stage'[p] # "absent" /\ ops'[p] = ops[p] /\ snaps'[p] = snaps[p]
              /\ \A i \in DOMAIN ops[p] :
                   /\ Ran(p, i) => Ran(p, i)' /\ took'[p][i] = took[p][i]
                   /\ Ran(p, i)' /\ ~Ran(p, i) =>
                        Execute(p) /\ i = at[p] /\ stage'[p] # "failed"
                   /\ Checked(p, i)' /\ ~Checked(p, i) =>
                        disk' = disk /\ Matches(p, i) /\ Ran(p, i)
                   /\ Checked(p, i) => Ran(p, i)
         /\ stage[p] = "absent" => \A i : ~Ran(p, i)' /\ ~Checked(p, i)'
<1>1. CASE /\ stage'[p] = stage[p] /\ at'[p] = at[p]
           /\ stage[p] # "absent" =>
                ops'[p] = ops[p] /\ snaps'[p] = snaps[p] /\ took'[p] = took[p]
  BY <1>1 DEF Ran, Checked
<1>2. CASE Execute(p)
  <2>1. stage[p] = "execute" /\ ops' = ops /\ snaps' = snaps
    BY <1>2 DEF Execute
  <2>2. Len(ops[p]) \in Nat /\ DOMAIN ops[p] = 1 .. Len(ops[p]) /\ at[p] \in 1 .. Len(ops[p])
    BY <2>1, PlanFacts
  <2>3. \A i \in DOMAIN ops[p] : Ran(p, i) => took'[p][i] = took[p][i]
    <3>1. \A i \in DOMAIN ops[p] : Ran(p, i) => i # at[p]
      BY <2>1, <2>2 DEF Ran
    <3> QED
      BY <1>2, <3>1, TookFacts
  <2> QED
    BY <1>2, <2>1, <2>2, <2>3, ExecuteFacts DEF Ran, Checked
<1>3. CASE Verify(p)
  <2>1. stage[p] = "verify" /\ ops' = ops /\ snaps' = snaps /\ took' = took /\ disk' = disk
    BY <1>3 DEF Verify, files
  <2>2. Len(ops[p]) \in Nat /\ DOMAIN ops[p] = 1 .. Len(ops[p]) /\ at[p] \in 1 .. Len(ops[p])
    BY <2>1, PlanFacts
  <2> QED
    BY <1>3, <2>1, <2>2, VerifyFacts DEF Ran, Checked
<1>4. CASE Apply(p)
  BY <1>4, ApplyFacts DEF Ran, Checked, Apply
<1>5. CASE Start(p)
  <2>1. stage[p] # "absent"
    BY <1>5 DEF Start
  <2>2. DOMAIN ops[p] = 1 .. Len(ops[p]) /\ Len(ops[p]) \in Nat
    BY <2>1, PlanFacts
  <2>3. /\ stage[p] = "pending" /\ stage'[p] = "execute" /\ at'[p] = 1
        /\ ops' = ops /\ snaps' = snaps /\ took' = took
    BY <1>5, StartFacts DEF Start
  <2> QED
    BY <2>2, <2>3 DEF Ran, Checked
<1>6. CASE CreatePlan(p)
  BY <1>6, CreateFacts DEF Ran, Checked
<1>7. ASSUME NEW q \in Plans \ {p}, Execute(q) \/ Verify(q) \/ Apply(q) \/ Start(q) \/ CreatePlan(q)
      PROVE  /\ stage'[p] = stage[p] /\ at'[p] = at[p]
             /\ ops'[p] = ops[p] /\ snaps'[p] = snaps[p] /\ took'[p] = took[p]
  <2>1. CASE Execute(q)
    BY <2>1, ExecuteFacts, TookFacts DEF Execute
  <2>2. CASE Verify(q)
    BY <2>2, VerifyFacts DEF Verify
  <2>3. CASE Apply(q)
    BY <2>3, ApplyFacts DEF Apply
  <2>4. CASE Start(q)
    BY <2>4, StartFacts DEF Start
  <2>5. CASE CreatePlan(q)
    BY <2>5, CreateFacts
  <2> QED
    BY <1>7, <2>1, <2>2, <2>3, <2>4, <2>5
<1>8. UNCHANGED plans => /\ stage'[p] = stage[p] /\ at'[p] = at[p]
                         /\ ops'[p] = ops[p] /\ snaps'[p] = snaps[p] /\ took'[p] = took[p]
  BY DEF plans
<1>9. UNCHANGED plans \/ \E q \in Plans :
                            CreatePlan(q) \/ Start(q) \/ Execute(q) \/ Verify(q) \/ Apply(q)
  BY NextKinds
<1> QED
  BY <1>1, <1>2, <1>3, <1>4, <1>5, <1>6, <1>7, <1>8, <1>9

\* The operation an execution step carries out, and what it does to the directory.
LEMMA Carried ==
  ASSUME TypeOK, Shapes, NEW p \in Plans, Execute(p), stage'[p] # "failed", NEW k, k = at[p]
  PROVE  /\ stage[p] = "execute" /\ k \in DOMAIN ops[p] /\ ~Ran(p, k) /\ Ran(p, k)'
         /\ IsMove(p, k) =>
              /\ disk[ops[p][k].source] # Nothing
              /\ disk' = [disk EXCEPT ![ops[p][k].source] = Nothing,
                                      ![ops[p][k].target] = disk[ops[p][k].source]]
              /\ took'[p][k] = disk[ops[p][k].source]
         /\ ops[p][k].type = "trash" => disk' = [disk EXCEPT ![ops[p][k].source] = Nothing]
         /\ ops[p][k].type = "upload" => disk' = disk
<1>1. stage[p] = "execute"
  BY DEF Execute
<1>2. /\ Len(ops[p]) \in Nat /\ DOMAIN ops[p] = 1 .. Len(ops[p]) /\ k \in 1 .. Len(ops[p])
      /\ ops[p][k].type \in {"move_rename", "trash", "upload"}
  BY <1>1, PlanFacts
<1>3. k \in DOMAIN ops[p] /\ ~Ran(p, k) /\ Ran(p, k)'
  BY <1>1, <1>2, ExecuteFacts DEF Ran
<1>4. ASSUME NEW f, took' = [took EXCEPT ![p][k] = f] PROVE took'[p][k] = f
  <2>1. k \in DOMAIN took[p] /\ p \in DOMAIN took
    BY <1>1, <1>2, PlanFacts DEF Shapes
  <2> QED
    BY <1>4, <2>1
<1> QED
  BY <1>1, <1>2, <1>3, <1>4, ExecuteFacts DEF IsMove, Op

\* Files come from an upload, leave with a trash, and change places with a move.
LEMMA DiskStep ==
  ASSUME TypeOK, Shapes, [Next]_vars
  PROVE  \/ disk' = disk
         \/ /\ UploadWrite /\ upload.step = "write" /\ upload.path \in Paths
            /\ disk' = [disk EXCEPT ![upload.path] = uploaded + 1]
         \/ \E p \in Plans :
              /\ Execute(p) /\ stage'[p] # "failed"
              /\ \/ /\ IsMove(p, at[p])
                    /\ disk' = [disk EXCEPT ![ops[p][at[p]].source] = Nothing,
                                      ![ops[p][at[p]].target] = disk[ops[p][at[p]].source]]
                 \/ /\ ops[p][at[p]].type = "trash"
                    /\ disk' = [disk EXCEPT ![ops[p][at[p]].source] = Nothing]
<1>1. UploadCheck => disk' = disk
  BY ZenonT(20) DEF UploadCheck, files
<1>2. UploadProbe => disk' = disk
  BY ZenonT(20) DEF UploadProbe, files
<1>3. ASSUME UploadWrite
      PROVE  /\ upload.step = "write" /\ upload.path \in Paths
             /\ disk' = [disk EXCEPT ![upload.path] = uploaded + 1]
  <2>1. upload.step = "write" => upload.path \in Paths
    BY DEF TypeOK, Idle
  <2>2. /\ upload.step = "write" /\ uploaded' = uploaded + 1
        /\ disk' = [disk EXCEPT ![upload.path] = uploaded']
    BY <1>3, ZenonT(20) DEF UploadWrite
  <2> QED
    BY <2>1, <2>2
<1>4. UploadRegister => disk' = disk
  BY ZenonT(20) DEF UploadRegister, files
<1>5. UNCHANGED vars => disk' = disk
  BY DEF vars, files
<1>6. ASSUME NEW p \in Plans, CreatePlan(p) \/ Start(p) \/ Verify(p) \/ Apply(p) PROVE disk' = disk
  BY <1>6 DEF CreatePlan, Start, Verify, Apply, files
<1>7. ASSUME NEW p \in Plans, Execute(p)
      PROVE  \/ disk' = disk
             \/ /\ stage'[p] # "failed"
                /\ \/ /\ IsMove(p, at[p])
                      /\ disk' = [disk EXCEPT ![ops[p][at[p]].source] = Nothing,
                                      ![ops[p][at[p]].target] = disk[ops[p][at[p]].source]]
                   \/ /\ ops[p][at[p]].type = "trash"
                      /\ disk' = [disk EXCEPT ![ops[p][at[p]].source] = Nothing]
  BY <1>7, ExecuteFacts DEF Op, IsMove
<1> QED
  BY <1>1, <1>2, <1>3, <1>4, <1>5, <1>6, <1>7, NextKinds

\* A file at a path was there, is the new upload's, or came by a move that now has run.
LEMMA FileFrom ==
  ASSUME TypeOK, Shapes, [Next]_vars, NEW x \in Paths
  PROVE  \/ disk'[x] \in {disk[x], Nothing}
         \/ UploadWrite /\ x = upload.path /\ disk'[x] = uploaded + 1
         \/ \E p \in Plans : \E k \in DOMAIN ops[p] :
              /\ stage[p] # "absent" /\ IsMove(p, k) /\ ~Ran(p, k) /\ Ran(p, k)'
              /\ ops[p][k].source \in Paths /\ ops[p][k].target = x
              /\ disk'[x] = disk[ops[p][k].source] /\ took'[p][k] = disk'[x]
<1>1. disk \in [Paths -> Files]
  BY DEF TypeOK
<1>2. ASSUME NEW p \in Plans, Execute(p), stage'[p] # "failed", NEW k, k = at[p], IsMove(p, k)
      PROVE  \/ disk'[x] \in {disk[x], Nothing}
             \/ /\ stage[p] # "absent" /\ k \in DOMAIN ops[p] /\ ~Ran(p, k) /\ Ran(p, k)'
                /\ ops[p][k].source \in Paths /\ ops[p][k].target = x
                /\ disk'[x] = disk[ops[p][k].source] /\ took'[p][k] = disk'[x]
  <2>1. /\ stage[p] = "execute" /\ k \in DOMAIN ops[p] /\ ~Ran(p, k) /\ Ran(p, k)'
        /\ disk' = [disk EXCEPT ![ops[p][k].source] = Nothing,
                                ![ops[p][k].target] = disk[ops[p][k].source]]
        /\ took'[p][k] = disk[ops[p][k].source]
    BY <1>2, Carried
  <2>2. ops[p][k].source \in Paths /\ ops[p][k].target \in Paths
    BY <1>2, <2>1, PlanFacts DEF IsMove
  <2> QED
    BY <1>1, <2>1, <2>2
<1> QED
  BY <1>1, <1>2, DiskStep
-----------------------------------------------------------------------------
(***************************************************************************)
(* Types, numbers and snapshots.                                           *)
(***************************************************************************)
LEMMA HasLeast ==
  ASSUME NEW S, S \subseteq Nat, S # {}
  PROVE  \E i \in S : \A j \in S : i <= j
<1>1. PICK i \in S : \A j \in S : ~(<<j, i>> \in OpToRel(<, Nat))
  BY NatLessThanWellFounded, WFMin
<1>2. \A j \in S : ~(j < i)
  BY <1>1 DEF OpToRel
<1> QED
  BY <1>2

\* The asset at a path is one of the records with that path.
LEMMA AssetAtPath ==
  ASSUME NEW path, AssetsAt(path) # {}
  PROVE  AssetAt(path) \in Uploads /\ assetPath[AssetAt(path)] = path
<1> DEFINE S == AssetsAt(path)
<1>1. S \subseteq Nat /\ S # {} /\ \A a \in S : a \in Uploads /\ assetPath[a] = path
  BY ControlledDirectoryAssumption DEF ControlledDirectoryAssumption, AssetsAt, Uploads
<1> HIDE DEF S
<1>2. \E a \in S : \A b \in S : a <= b
  BY <1>1, HasLeast
<1>3. Min(S) \in S
  BY <1>2 DEF Min
<1> QED
  BY <1>1, <1>3 DEF AssetAt, S

LEMMA UploadFacts ==
  ASSUME TypeOK
  PROVE  /\ upload # Idle =>
              /\ upload.step \in {"probe", "write", "register"} /\ upload.path \in Paths
              /\ upload = [step |-> upload.step, path |-> upload.path]
         /\ upload.step # "idle" => upload # Idle
         /\ Idle.step = "idle"
         /\ uploaded \in Nat /\ MaxUploads \in Nat /\ uploaded <= MaxUploads
  BY ControlledDirectoryAssumption DEF TypeOK, Idle, ControlledDirectoryAssumption

\* An upload registers under a record at its path or, without one, under its own number.
LEMMA RegisterFacts ==
  ASSUME TypeOK, Numbered, UploadRegister
  PROVE  \E asset \in Uploads :
           /\ upload.step = "register" /\ upload.path \in Paths /\ uploaded \in Uploads
           /\ assetPath' = [assetPath EXCEPT ![asset] = upload.path]
           /\ active' = [active EXCEPT ![asset] = uploaded]
           /\ \/ asset = uploaded /\ AssetsAt(upload.path) = {}
              \/ assetPath[asset] = upload.path /\ AssetsAt(upload.path) # {}
<1>1. upload.step = "register" /\ upload.path \in Paths /\ uploaded \in Uploads
  BY UploadFacts DEF UploadRegister, Numbered, Uploads
<1>2. CASE AssetsAt(upload.path) = {}
  BY <1>1, <1>2 DEF UploadRegister
<1>3. CASE AssetsAt(upload.path) # {}
  BY <1>1, <1>3, AssetAtPath DEF UploadRegister
<1> QED
  BY <1>2, <1>3

LEMMA InitTyped == Init => TypeOK /\ Shapes /\ Numbered /\ OneCopy /\ Created
<1> SUFFICES ASSUME Init PROVE TypeOK /\ Shapes /\ Numbered /\ OneCopy /\ Created
  OBVIOUS
<1>1. MaxUploads \in Nat
  BY ControlledDirectoryAssumption DEF ControlledDirectoryAssumption
<1>2. /\ disk = [x \in Paths |-> Nothing] /\ assetPath = [a \in Uploads |-> None]
      /\ active = [a \in Uploads |-> Nothing] /\ uploaded = 0 /\ overlap = FALSE
      /\ upload = Idle /\ upload.step = "idle" /\ stage = [p \in Plans |-> "absent"]
      /\ DOMAIN ops = Plans /\ DOMAIN snaps = Plans /\ DOMAIN took = Plans
      /\ at = [p \in Plans |-> 1]
      /\ bytes = [u \in Uploads |-> None] /\ origin = [u \in Uploads |-> None]
  BY DEF Init, Idle
<1>3. TypeOK
  <2>1. /\ disk \in [Paths -> Files] /\ assetPath \in [Uploads -> Paths \cup {None}]
        /\ active \in [Uploads -> Files] /\ stage \in [Plans -> Stages]
        /\ bytes \in [Uploads -> Bytes \cup {None}] /\ origin \in [Uploads -> Paths \cup {None}]
    BY <1>2 DEF Files, Stages
  <2>2. uploaded \in 0 .. MaxUploads
    BY <1>1, <1>2
  <2>3. \A p \in Plans : stage[p] = "absent"
    BY <1>2
  <2> QED
    BY <1>2, <2>1, <2>2, <2>3 DEF TypeOK
<1>4. Shapes
  BY <1>2 DEF Shapes
<1> QED
  BY <1>1, <1>2, <1>3, <1>4 DEF Numbered, OneCopy, Created, Nothing

LEMMA TypeStep ==
  ASSUME TypeOK, Shapes, Numbered, Created, [Next]_vars
  PROVE  TypeOK' /\ Shapes'
<1>1. /\ disk \in [Paths -> Files] /\ assetPath \in [Uploads -> Paths \cup {None}]
      /\ active \in [Uploads -> Files] /\ uploaded \in 0 .. MaxUploads
      /\ stage \in [Plans -> Stages] /\ overlap \in BOOLEAN /\ Nothing \in Files
      /\ upload \in [step : {"probe", "write", "register"}, path : Paths] \cup {Idle}
      /\ bytes \in [Uploads -> Bytes \cup {None}] /\ origin \in [Uploads -> Paths \cup {None}]
  BY DEF TypeOK, Files
<1>2. DOMAIN ops = Plans /\ DOMAIN snaps = Plans /\ DOMAIN took = Plans /\ at \in [Plans -> Nat]
  BY DEF Shapes
<1>3. \A p \in Plans : stage[p] # "absent" => at[p] \in DOMAIN ops[p]
  BY DEF TypeOK
<1> DEFINE PlansTyped ==
      /\ stage \in [Plans -> Stages]
      /\ \A p \in Plans : stage[p] # "absent" =>
           /\ ops[p] \in SeqsUpTo(Operations, MaxOps)
           /\ snaps[p] \in [DOMAIN ops[p] -> Snapshots]
           /\ at[p] \in DOMAIN ops[p]
           /\ took[p] \in [DOMAIN ops[p] -> Files]
<1>4. ASSUME UNCHANGED plans PROVE PlansTyped' /\ Shapes'
  BY <1>4 DEF TypeOK, Shapes, plans
<1>5. CASE UploadCheck
  <2>1. /\ UNCHANGED <<files, assets, plans>>
        /\ upload' \in [step : {"probe", "write", "register"}, path : Paths]
        /\ overlap' \in BOOLEAN
    BY <1>1, <1>5 DEF UploadCheck, Begin
  <2> QED
    BY <1>1, <1>4, <2>1 DEF TypeOK, files, assets
<1>6. CASE UploadProbe
  <2>1. /\ UNCHANGED <<files, assets, plans, overlap>>
        /\ upload' \in [step : {"probe", "write", "register"}, path : Paths] \cup {Idle}
    BY <1>6, UploadFacts DEF UploadProbe
  <2> QED
    BY <1>1, <1>4, <2>1 DEF TypeOK, files, assets
<1>7. CASE UploadWrite
  <2>1. UNCHANGED <<assets, plans, overlap>> /\ uploaded' = uploaded + 1
        /\ upload' \in [step : {"probe", "write", "register"}, path : Paths]
        /\ disk' = [disk EXCEPT ![upload.path] = uploaded'] /\ upload.step = "write"
        /\ origin' = [origin EXCEPT ![uploaded'] = upload.path] /\ upload.path \in Paths
    BY <1>7, UploadFacts DEF UploadWrite
  <2>2. uploaded' \in 0 .. MaxUploads /\ uploaded' \in Files
    BY <1>1, <2>1, UploadFacts DEF Numbered, Files, Uploads
  <2>3. disk' \in [Paths -> Files] /\ origin' \in [Uploads -> Paths \cup {None}]
    BY <1>1, <2>1, <2>2
  <2>4. bytes' \in [Uploads -> Bytes \cup {None}]
    <3>1. PICK content \in Bytes : bytes' = [bytes EXCEPT ![uploaded'] = content]
      BY <1>7 DEF UploadWrite
    <3> QED
      BY <1>1, <3>1
  <2> QED
    BY <1>1, <1>4, <2>1, <2>2, <2>3, <2>4 DEF TypeOK, assets
<1>8. CASE UploadRegister
  <2>1. UNCHANGED <<files, plans, overlap>> /\ upload' = Idle
    BY <1>8 DEF UploadRegister
  <2>2. assetPath' \in [Uploads -> Paths \cup {None}] /\ active' \in [Uploads -> Files]
    BY <1>1, <1>8, RegisterFacts DEF Files
  <2> QED
    BY <1>1, <1>4, <2>1, <2>2 DEF TypeOK, files
<1>9. ASSUME NEW p \in Plans,
             stage' \in [Plans -> Stages], at' \in [Plans -> Nat], UNCHANGED <<ops, snaps>>,
             DOMAIN took' = Plans, \A q \in Plans \ {p} : took'[q] = took[q],
             took'[p] \in [DOMAIN ops[p] -> Files],
             \A q \in Plans \ {p} : stage'[q] = stage[q] /\ at'[q] = at[q],
             stage[p] # "absent", at'[p] \in DOMAIN ops[p], stage'[p] \notin {"absent", "pending"}
      PROVE  PlansTyped' /\ Shapes'
  BY <1>9 DEF TypeOK, Shapes
<1>10. ASSUME NEW p \in Plans, CreatePlan(p) PROVE TypeOK' /\ Shapes'
  <2>1. UNCHANGED <<files, assets, upload, at, overlap>>
    BY <1>10 DEF CreatePlan
  <2>2. PICK n \in 1 .. MaxOps : ops'[p] \in [1 .. n -> Operations]
    BY <1>10, CreateFacts DEF SeqsUpTo
  <2>3. DOMAIN ops'[p] = 1 .. n /\ 1 \in DOMAIN ops'[p]
    BY <2>2, ControlledDirectoryAssumption DEF ControlledDirectoryAssumption
  <2>4. snaps'[p] \in [DOMAIN ops'[p] -> Snapshots]
    <3>1. ASSUME NEW i \in DOMAIN ops'[p], NEW a, a = AssetAt(ops'[p][i].source)
          PROVE  [asset |-> a, version |-> active[a]] \in Snapshots
      <4>1. a \in Uploads /\ assetPath[a] = ops'[p][i].source /\ ops'[p][i].source \in Paths
        <5>1. ops'[p][i] \in Operations
          BY <2>2, <2>3
        <5>2. ops'[p][i].source \in Paths
          BY <5>1 DEF Operations
        <5> QED
          BY <1>10, <3>1, <5>2, CreateFacts, AssetAtPath
      <4>2. active[a] \in 1 .. uploaded
        BY <4>1, ControlledDirectoryAssumption DEF Numbered, ControlledDirectoryAssumption
      <4>3. active[a] \in Uploads
        BY <1>1, <4>2, UploadFacts DEF Uploads
      <4> QED
        BY <4>1, <4>3 DEF Snapshots
    <3>2. \A i \in DOMAIN ops'[p] : [asset |-> AssetAt(ops'[p][i].source),
                                     version |-> active[AssetAt(ops'[p][i].source)]] \in Snapshots
      BY <3>1
    <3>3. snaps'[p] = [i \in DOMAIN ops'[p] |->
                        [asset |-> AssetAt(ops'[p][i].source),
                         version |-> active[AssetAt(ops'[p][i].source)]]]
      BY <1>10, CreateFacts
    <3> QED
      BY <3>2, <3>3
  <2>5. PlansTyped' /\ Shapes'
    <3>1. took'[p] = [i \in DOMAIN ops'[p] |-> Nothing]
      BY <1>10, CreateFacts
    <3>2. took'[p] \in [DOMAIN ops'[p] -> Files]
      BY <1>1, <3>1
    <3>3. Shapes'
      BY <1>2, <1>10, <2>1, CreateFacts DEF Shapes
    <3>4. /\ stage' \in [Plans -> Stages] /\ at' = at /\ at[p] = 1
          /\ ops'[p] \in SeqsUpTo(Operations, MaxOps)
          /\ \A q \in Plans \ {p} : /\ stage'[q] = stage[q] /\ ops'[q] = ops[q]
                                   /\ snaps'[q] = snaps[q] /\ took'[q] = took[q]
      BY <1>10, CreateFacts
    <3>5. /\ ops'[p] \in SeqsUpTo(Operations, MaxOps)
          /\ snaps'[p] \in [DOMAIN ops'[p] -> Snapshots]
          /\ at'[p] \in DOMAIN ops'[p] /\ took'[p] \in [DOMAIN ops'[p] -> Files]
      BY <2>3, <2>4, <3>2, <3>4
    <3>6. ASSUME NEW q \in Plans \ {p}, stage'[q] # "absent"
          PROVE  /\ ops'[q] \in SeqsUpTo(Operations, MaxOps)
                 /\ snaps'[q] \in [DOMAIN ops'[q] -> Snapshots]
                 /\ at'[q] \in DOMAIN ops'[q] /\ took'[q] \in [DOMAIN ops'[q] -> Files]
      <4>1. stage[q] # "absent"
        BY <3>4, <3>6
      <4>2. /\ ops[q] \in SeqsUpTo(Operations, MaxOps)
            /\ snaps[q] \in [DOMAIN ops[q] -> Snapshots]
            /\ at[q] \in DOMAIN ops[q] /\ took[q] \in [DOMAIN ops[q] -> Files]
        BY <4>1 DEF TypeOK
      <4> QED
        BY <3>4, <4>2
    <3>7. PlansTyped'
      BY <3>4, <3>5, <3>6
    <3> QED
      BY <3>3, <3>7
  <2> QED
    BY <1>1, <2>1, <2>5 DEF TypeOK, files, assets
<1>11. ASSUME NEW p \in Plans, Start(p) PROVE TypeOK' /\ Shapes'
  <2>1. UNCHANGED <<files, assets, upload, ops, snaps, at, took>> /\ overlap' \in BOOLEAN
    BY <1>1, <1>11 DEF Start, Begin
  <2>2. PlansTyped' /\ Shapes'
    BY <1>2, <1>3, <1>9, <1>11, <2>1, StartFacts, PlanFacts
  <2> QED
    BY <1>1, <2>1, <2>2 DEF TypeOK, files, assets
<1>12. ASSUME NEW p \in Plans, Execute(p) PROVE TypeOK' /\ Shapes'
  <2>1. /\ UNCHANGED <<uploaded, bytes, origin, assets, upload, ops, snaps, overlap>>
        /\ stage[p] = "execute"
    BY <1>12 DEF Execute
  <2>2. /\ Len(ops[p]) \in Nat \ {0} /\ DOMAIN ops[p] = 1 .. Len(ops[p])
        /\ at[p] \in 1 .. Len(ops[p])
        /\ Op(p).source \in Paths
        /\ Op(p).type = "move_rename" => Op(p).target \in Paths /\ Snap(p).asset \in Uploads
    BY <2>1, PlanFacts DEF Op, Snap
  <2>3. PlansTyped' /\ Shapes'
    <3>1. /\ stage' \in [Plans -> Stages] /\ at' \in [Plans -> Nat]
          /\ \A q \in Plans \ {p} : stage'[q] = stage[q] /\ at'[q] = at[q]
          /\ at'[p] \in DOMAIN ops[p] /\ stage'[p] \notin {"absent", "pending"}
      BY <1>12, <2>2, ExecuteFacts
    <3>2. stage[p] # "absent" /\ UNCHANGED <<ops, snaps>>
      BY <2>1
    <3> QED
      BY <1>9, <1>12, <3>1, <3>2, TookFacts
  <2>4. disk' \in [Paths -> Files]
    <3> DEFINE s == Op(p).source
               t == Op(p).target
    <3>1. \/ disk' = disk
          \/ Op(p).type = "move_rename" /\ disk' = [disk EXCEPT ![s] = Nothing, ![t] = disk[s]]
          \/ disk' = [disk EXCEPT ![s] = Nothing]
      BY <1>12, ExecuteFacts
    <3>2. s \in Paths /\ (Op(p).type = "move_rename" => t \in Paths)
      BY <2>2
    <3> HIDE DEF s, t
    <3> QED
      BY <1>1, <3>1, <3>2
  <2> QED
    BY <1>1, <2>1, <2>3, <2>4 DEF TypeOK, assets
<1>13. ASSUME NEW p \in Plans, Verify(p) PROVE TypeOK' /\ Shapes'
  <2>1. UNCHANGED <<files, assets, upload, ops, snaps, took, overlap>> /\ stage[p] = "verify"
    BY <1>13 DEF Verify
  <2>2. /\ Len(ops[p]) \in Nat \ {0} /\ DOMAIN ops[p] = 1 .. Len(ops[p])
        /\ at[p] \in 1 .. Len(ops[p]) /\ took[p] \in [DOMAIN ops[p] -> Files]
    BY <2>1, PlanFacts
  <2>3. PlansTyped' /\ Shapes'
    BY <1>2, <1>9, <1>13, <2>1, <2>2, VerifyFacts
  <2> QED
    BY <1>1, <2>1, <2>3 DEF TypeOK, files, assets
<1>14. ASSUME NEW p \in Plans, Apply(p) PROVE TypeOK' /\ Shapes'
  <2>1. UNCHANGED <<files, active, upload, ops, snaps, took, overlap>> /\ stage[p] = "apply"
    BY <1>14 DEF Apply
  <2>2. /\ Len(ops[p]) \in Nat \ {0} /\ DOMAIN ops[p] = 1 .. Len(ops[p])
        /\ at[p] \in 1 .. Len(ops[p])
        /\ Op(p).type = "move_rename" => Op(p).target \in Paths /\ Snap(p).asset \in Uploads
        /\ took[p] \in [DOMAIN ops[p] -> Files]
    BY <2>1, PlanFacts DEF Op, Snap
  <2>3. PlansTyped' /\ Shapes'
    <3>1. /\ stage' \in [Plans -> Stages] /\ at' \in [Plans -> Nat]
          /\ \A q \in Plans \ {p} : stage'[q] = stage[q] /\ at'[q] = at[q]
          /\ at'[p] \in DOMAIN ops[p] /\ stage'[p] \notin {"absent", "pending"}
      BY <1>14, <2>2, ApplyFacts
    <3> QED
      BY <1>2, <1>9, <2>1, <2>2, <3>1
  <2>4. assetPath' \in [Uploads -> Paths \cup {None}]
    <3>1. \/ assetPath' = assetPath
          \/ /\ Op(p).type = "move_rename"
             /\ assetPath' = [assetPath EXCEPT ![Snap(p).asset] = Op(p).target]
      BY <1>14 DEF Apply
    <3> QED
      BY <1>1, <2>2, <3>1
  <2> QED
    BY <1>1, <2>1, <2>3, <2>4 DEF TypeOK, files
<1>15. CASE UNCHANGED vars
  BY <1>1, <1>4, <1>15 DEF TypeOK, vars, files, assets
<1> QED
  BY <1>5, <1>6, <1>7, <1>8, <1>10, <1>11, <1>12, <1>13, <1>14, <1>15, NextKinds

\* Only a registering upload and a verified move change a record.
LEMMA RecordStep ==
  ASSUME TypeOK, [Next]_vars
  PROVE  \/ assetPath' = assetPath /\ active' = active
         \/ UploadRegister
         \/ \E p \in Plans : \E k \in DOMAIN ops[p] :
              /\ Apply(p) /\ stage[p] = "apply" /\ k = at[p] /\ IsMove(p, k) /\ active' = active
              /\ assetPath' = [assetPath EXCEPT ![snaps[p][k].asset] = ops[p][k].target]
<1>1. UploadCheck \/ UploadProbe \/ UploadWrite => assetPath' = assetPath /\ active' = active
  <2>1. UploadCheck => UNCHANGED assets
    BY ZenonT(20) DEF UploadCheck
  <2>2. UploadProbe => UNCHANGED assets
    BY ZenonT(20) DEF UploadProbe
  <2>3. UploadWrite => UNCHANGED assets
    BY ZenonT(20) DEF UploadWrite
  <2> QED
    BY <2>1, <2>2, <2>3 DEF assets
<1>2. UNCHANGED vars => assetPath' = assetPath /\ active' = active
  BY DEF vars, assets
<1>3. ASSUME NEW p \in Plans, CreatePlan(p) \/ Start(p) \/ Execute(p) \/ Verify(p)
      PROVE  assetPath' = assetPath /\ active' = active
  BY <1>3 DEF CreatePlan, Start, Execute, Verify, assets
<1>4. ASSUME NEW p \in Plans, Apply(p)
      PROVE  \/ assetPath' = assetPath /\ active' = active
             \/ \E k \in DOMAIN ops[p] :
                  /\ stage[p] = "apply" /\ k = at[p] /\ IsMove(p, k) /\ active' = active
                  /\ assetPath' = [assetPath EXCEPT ![snaps[p][k].asset] = ops[p][k].target]
  <2>1. stage[p] = "apply" /\ active' = active
    BY <1>4 DEF Apply
  <2>2. at[p] \in DOMAIN ops[p]
    BY <2>1 DEF TypeOK
  <2>3. \/ assetPath' = assetPath
        \/ /\ IsMove(p, at[p])
           /\ assetPath' = [assetPath EXCEPT ![snaps[p][at[p]].asset] = ops[p][at[p]].target]
    BY <1>4 DEF Apply, Op, Snap, IsMove
  <2> QED
    BY <2>1, <2>2, <2>3
<1> QED
  BY <1>1, <1>2, <1>3, <1>4, NextKinds

\* Only uploads change the upload at work and the count of uploads.
LEMMA PlansKeepUploads ==
  ASSUME NEW p \in Plans, CreatePlan(p) \/ Start(p) \/ Execute(p) \/ Verify(p) \/ Apply(p)
  PROVE  upload' = upload /\ uploaded' = uploaded /\ bytes' = bytes /\ origin' = origin
  BY DEF CreatePlan, Start, Execute, Verify, Apply, files

\* The steps of an upload.
LEMMA UploadSteps ==
  ASSUME TypeOK
  PROVE  /\ UploadCheck => \E path \in Paths :
              /\ upload = Idle /\ upload' = [step |-> "probe", path |-> path]
              /\ AssetsAt(path) = {} /\ uploaded < MaxUploads
              /\ UNCHANGED <<files, assets, plans>>
         /\ UploadProbe =>
              /\ upload.step = "probe" /\ UNCHANGED <<files, assets, plans, overlap>>
              /\ upload' \in {Idle, [step |-> "write", path |-> upload.path]}
         /\ UploadWrite =>
              /\ upload.step = "write" /\ uploaded' = uploaded + 1
              /\ disk' = [disk EXCEPT ![upload.path] = uploaded + 1]
              /\ \E content \in Bytes : bytes' = [bytes EXCEPT ![uploaded + 1] = content]
              /\ origin' = [origin EXCEPT ![uploaded + 1] = upload.path]
              /\ upload' = [step |-> "register", path |-> upload.path]
              /\ UNCHANGED <<assets, plans, overlap>>
         /\ UploadRegister =>
              /\ upload.step = "register" /\ upload' = Idle
              /\ UNCHANGED <<files, plans, overlap>>
<1>1. UploadCheck => \E path \in Paths :
        /\ upload = Idle /\ upload' = [step |-> "probe", path |-> path]
        /\ AssetsAt(path) = {} /\ uploaded < MaxUploads
        /\ UNCHANGED <<files, assets, plans>>
  BY DEF UploadCheck
<1>2. UploadProbe =>
        /\ upload.step = "probe" /\ UNCHANGED <<files, assets, plans, overlap>>
        /\ upload' \in {Idle, [step |-> "write", path |-> upload.path]}
  BY DEF UploadProbe
<1>3. UploadWrite =>
        /\ upload.step = "write" /\ uploaded' = uploaded + 1
        /\ disk' = [disk EXCEPT ![upload.path] = uploaded + 1]
        /\ \E content \in Bytes : bytes' = [bytes EXCEPT ![uploaded + 1] = content]
        /\ origin' = [origin EXCEPT ![uploaded + 1] = upload.path]
        /\ upload' = [step |-> "register", path |-> upload.path]
        /\ UNCHANGED <<assets, plans, overlap>>
  BY DEF UploadWrite
<1>4. UploadRegister =>
        upload.step = "register" /\ upload' = Idle /\ UNCHANGED <<files, plans, overlap>>
  BY DEF UploadRegister
<1> QED
  BY <1>1, <1>2, <1>3, <1>4

\* What was uploaded, and where, is never changed.
LEMMA FilesStay ==
  ASSUME TypeOK, [Next]_vars
  PROVE  /\ uploaded' \in {uploaded, uploaded + 1}
         /\ \A u \in 1 .. uploaded : bytes'[u] = bytes[u] /\ origin'[u] = origin[u]
         /\ \A u \in 0 .. uploaded : \A v \in 1 .. uploaded : (Same(u, v))' <=> Same(u, v)
<1>1. uploaded' \in {uploaded, uploaded + 1}
  <2>1. UNCHANGED vars => uploaded' = uploaded
    BY DEF vars, files
  <2> QED
    BY <2>1, NextKinds, PlansKeepUploads, UploadSteps DEF files
<1>2. ASSUME NEW u \in 1 .. uploaded PROVE bytes'[u] = bytes[u] /\ origin'[u] = origin[u]
  <2>1. CASE UploadWrite
    <3>1. PICK content \in Bytes : bytes' = [bytes EXCEPT ![uploaded + 1] = content]
      BY <2>1, UploadSteps
    <3>2. origin' = [origin EXCEPT ![uploaded + 1] = upload.path] /\ u # uploaded + 1
      BY <2>1, UploadSteps, UploadFacts
    <3> QED
      BY <3>1, <3>2
  <2>2. UNCHANGED vars => bytes' = bytes /\ origin' = origin
    BY DEF vars, files
  <2>3. UploadCheck \/ UploadProbe \/ UploadRegister => bytes' = bytes /\ origin' = origin
    BY UploadSteps DEF files
  <2> QED
    BY <2>1, <2>2, <2>3, NextKinds, PlansKeepUploads
<1>3. \A u \in 0 .. uploaded : \A v \in 1 .. uploaded : (Same(u, v))' <=> Same(u, v)
  <2> SUFFICES ASSUME NEW u \in 0 .. uploaded, NEW v \in 1 .. uploaded
               PROVE  (Same(u, v))' <=> Same(u, v)
    OBVIOUS
  <2>1. u # Nothing => u \in 1 .. uploaded
    BY UploadFacts DEF Nothing
  <2> QED
    BY <1>2, <2>1 DEF Same
<1> QED
  BY <1>1, <1>2, <1>3

LEMMA NumberStep ==
  ASSUME TypeOK, Shapes, Numbered, Created, [Next]_vars
  PROVE  Numbered'
<1>1. /\ \A a \in Uploads : a \in Nat /\ active[a] \in Nat
      /\ \A x \in Paths : disk[x] \in Nat /\ disk[x] <= uploaded
      /\ uploaded \in Nat /\ uploaded <= MaxUploads /\ MaxUploads \in Nat
  <2>1. disk \in [Paths -> Files] /\ active \in [Uploads -> Files]
    BY DEF TypeOK
  <2> QED
    BY <2>1, UploadFacts DEF Files, Uploads, Nothing, Numbered
<1>2. CASE UploadCheck
  BY <1>1, <1>2, UploadSteps DEF Numbered, files, assets
<1>3. CASE UploadProbe
  BY <1>1, <1>3, UploadSteps, UploadFacts DEF Numbered, files, assets
<1>4. CASE UploadWrite
  <2>1. /\ upload.step = "write" /\ uploaded' = uploaded + 1 /\ upload'.step = "register"
        /\ disk' = [disk EXCEPT ![upload.path] = uploaded + 1] /\ disk \in [Paths -> Files]
        /\ UNCHANGED assets
    BY <1>4, UploadSteps DEF TypeOK
  <2>2. \A x \in Paths : disk'[x] <= uploaded + 1
    BY <1>1, <2>1
  <2> QED
    BY <1>1, <2>1, <2>2 DEF Numbered, assets
<1>5. CASE UploadRegister
  <2>1. upload' = Idle /\ UNCHANGED files /\ upload.step = "register"
    BY <1>5, UploadSteps
  <2>2. PICK asset \in Uploads :
          /\ uploaded \in Uploads /\ assetPath' = [assetPath EXCEPT ![asset] = upload.path]
          /\ active' = [active EXCEPT ![asset] = uploaded]
    BY <1>5, RegisterFacts
  <2>3. /\ assetPath \in [Uploads -> Paths \cup {None}] /\ active \in [Uploads -> Files]
        /\ uploaded # 0
    BY <2>1 DEF TypeOK, Numbered
  <2> QED
    BY <1>1, <2>1, <2>2, <2>3, UploadFacts DEF Numbered, files
<1>6. ASSUME NEW p \in Plans, CreatePlan(p) \/ Start(p) \/ Execute(p) \/ Verify(p) \/ Apply(p),
             ~UploadRegister, ~UploadWrite
      PROVE  Numbered'
  <2>1. upload' = upload /\ uploaded' = uploaded
    BY <1>6, PlansKeepUploads
  <2>2. active' = active /\ \A a \in Uploads : assetPath'[a] # None => assetPath[a] # None
    <3>1. CASE assetPath' = assetPath /\ active' = active
      BY <3>1
    <3>2. ASSUME NEW q \in Plans, NEW k \in DOMAIN ops[q], stage[q] = "apply", active' = active,
                 assetPath' = [assetPath EXCEPT ![snaps[q][k].asset] = ops[q][k].target]
          PROVE  active' = active /\ \A a \in Uploads : assetPath'[a] # None => assetPath[a] # None
      <4>1. assetPath[snaps[q][k].asset] # None
        BY <3>2 DEF Created
      <4>2. assetPath \in [Uploads -> Paths \cup {None}]
        BY DEF TypeOK
      <4> QED
        BY <3>2, <4>1, <4>2
    <3> QED
      BY <1>6, <3>1, <3>2, RecordStep
  <2>3. \A x \in Paths : disk'[x] <= uploaded
    BY <1>1, <1>6, FileFrom DEF Nothing
  <2> QED
    BY <2>1, <2>2, <2>3 DEF Numbered
<1>7. CASE UNCHANGED vars
  BY <1>7 DEF Numbered, vars, files, assets
<1>8. CASE ~UploadRegister /\ ~UploadWrite
  BY <1>2, <1>3, <1>6, <1>7, <1>8, NextKinds
<1> QED
  BY <1>4, <1>5, <1>8

\* A file is at one path before a step, so it is after it.
LEMMA OneCopyStep ==
  ASSUME TypeOK, Shapes, Numbered, OneCopy, [Next]_vars
  PROVE  OneCopy'
<1>1. /\ disk \in [Paths -> Files] /\ \A x \in Paths : disk[x] \in Nat /\ disk[x] <= uploaded
      /\ uploaded \in Nat
  BY UploadFacts DEF TypeOK, Files, Uploads, Nothing, Numbered
<1>2. ASSUME disk' = [disk EXCEPT ![upload.path] = uploaded + 1], upload.path \in Paths
      PROVE  OneCopy'
  BY <1>1, <1>2 DEF OneCopy
<1>3. ASSUME NEW s \in Paths, disk' = [disk EXCEPT ![s] = Nothing] PROVE OneCopy'
  BY <1>1, <1>3 DEF OneCopy
<1>4. ASSUME NEW s \in Paths, NEW t \in Paths,
             disk' = [disk EXCEPT ![s] = Nothing, ![t] = disk[s]]
      PROVE  OneCopy'
  BY <1>1, <1>4 DEF OneCopy
<1>5. ASSUME NEW p \in Plans, Execute(p), NEW k, k = at[p]
      PROVE  ops[p][k].source \in Paths /\ (IsMove(p, k) => ops[p][k].target \in Paths)
  <2>1. stage[p] = "execute" /\ stage[p] # "absent"
    BY <1>5 DEF Execute
  <2> QED
    BY <1>5, <2>1, PlanFacts DEF IsMove
<1>6. CASE disk' = disk
  BY <1>6 DEF OneCopy
<1> QED
  BY <1>2, <1>3, <1>4, <1>5, <1>6, DiskStep

\* Records are never deleted and numbers never taken back.
LEMMA RecordsStay ==
  ASSUME TypeOK, Shapes, Numbered, [Next]_vars
  PROVE  /\ \A a \in Uploads : assetPath[a] # None => assetPath'[a] # None
         /\ uploaded' \in Nat /\ uploaded \in Nat /\ uploaded <= uploaded'
<1>1. \A a \in Uploads : assetPath[a] # None => assetPath'[a] # None
  <2>1. assetPath \in [Uploads -> Paths \cup {None}]
    BY DEF TypeOK
  <2>2. CASE UploadRegister
    <3>1. PICK asset \in Uploads :
            upload.path \in Paths /\ assetPath' = [assetPath EXCEPT ![asset] = upload.path]
      BY <2>2, RegisterFacts
    <3> QED
      BY <2>1, <3>1, ControlledDirectoryAssumption DEF ControlledDirectoryAssumption
  <2>3. ASSUME NEW p \in Plans, NEW k \in DOMAIN ops[p], stage[p] = "apply", IsMove(p, k),
               assetPath' = [assetPath EXCEPT ![snaps[p][k].asset] = ops[p][k].target]
        PROVE  \A a \in Uploads : assetPath[a] # None => assetPath'[a] # None
    <3>1. ops[p][k].target \in Paths
      BY <2>3, PlanFacts DEF IsMove
    <3> QED
      BY <2>1, <2>3, <3>1, ControlledDirectoryAssumption DEF ControlledDirectoryAssumption
  <2> QED
    BY <2>2, <2>3, RecordStep
<1> QED
  BY <1>1, FilesStay, UploadFacts

\* A plan comes into being by its creation only.
LEMMA CreatedAlone ==
  ASSUME TypeOK, Shapes, [Next]_vars, NEW p \in Plans, stage[p] = "absent", stage'[p] # "absent"
  PROVE  CreatePlan(p)
<1>1. ASSUME NEW q \in Plans, Start(q) \/ Execute(q) \/ Verify(q) \/ Apply(q)
      PROVE  stage'[p] = stage[p]
  <2>1. q # p
    BY <1>1 DEF Start, Execute, Verify, Apply
  <2> QED
    BY <1>1, <2>1, StartFacts, ExecuteFacts, VerifyFacts, ApplyFacts
<1>2. ASSUME NEW q \in Plans, CreatePlan(q), q # p PROVE stage'[p] = stage[p]
  BY <1>2, CreateFacts
<1>3. UNCHANGED plans => stage'[p] = stage[p]
  BY DEF plans
<1> QED
  BY <1>1, <1>2, <1>3, NextKinds

LEMMA CreatedStep ==
  ASSUME TypeOK, Shapes, Numbered, Created, [Next]_vars
  PROVE  Created'
<1> SUFFICES ASSUME NEW p \in Plans, stage'[p] # "absent", NEW i \in DOMAIN ops'[p]
             PROVE  /\ assetPath'[snaps'[p][i].asset] # None
                    /\ snaps'[p][i].version \in 1 .. uploaded'
  BY DEF Created
<1>1. CASE stage[p] # "absent"
  <2>1. ops'[p] = ops[p] /\ snaps'[p] = snaps[p]
    BY <1>1, Progress
  <2>2. snaps[p][i].asset \in Uploads /\ snaps[p][i].version \in Uploads
    BY <1>1, <2>1, PlanFacts
  <2>3. assetPath[snaps[p][i].asset] # None /\ snaps[p][i].version \in 1 .. uploaded
    BY <1>1, <2>1 DEF Created
  <2> QED
    BY <2>1, <2>2, <2>3, RecordsStay
<1>2. CASE stage[p] = "absent"
  <2>1. CreatePlan(p)
    BY <1>2, CreatedAlone
  <2>2. PICK n \in 1 .. MaxOps : ops'[p] \in [1 .. n -> Operations]
    BY <2>1, CreateFacts DEF SeqsUpTo
  <2>3. assetPath' = assetPath /\ uploaded' = uploaded
    BY <2>1 DEF CreatePlan, files, assets
  <2>4. /\ snaps'[p] = [m \in DOMAIN ops'[p] |->
                          [asset |-> AssetAt(ops'[p][m].source),
                           version |-> active[AssetAt(ops'[p][m].source)]]]
        /\ AssetsAt(ops'[p][i].source) # {}
    BY <2>1, CreateFacts
  <2>5. PICK a : a = AssetAt(ops'[p][i].source)
    OBVIOUS
  <2>6. snaps'[p][i] = [asset |-> a, version |-> active[a]]
    BY <2>4, <2>5
  <2>7. a \in Uploads /\ assetPath[a] = ops'[p][i].source
    BY <2>4, <2>5, AssetAtPath
  <2>8. ops'[p][i] \in Operations
    BY <2>2
  <2>9. assetPath[a] # None
    BY <2>7, <2>8, ControlledDirectoryAssumption DEF Operations, ControlledDirectoryAssumption
  <2> QED
    BY <2>3, <2>6, <2>7, <2>9 DEF Numbered
<1> QED
  BY <1>1, <1>2
-----------------------------------------------------------------------------
(***************************************************************************)
(* What happens to the version that plans were approved for.               *)
(***************************************************************************)
\* The facts of a created plan's operation before and after a step.
LEMMA OperationFacts ==
  ASSUME TypeOK, Shapes, Created, [Next]_vars, NEW p \in Plans, stage[p] # "absent",
         NEW i \in DOMAIN ops[p]
  PROVE  /\ ops'[p] = ops[p] /\ snaps'[p] = snaps[p] /\ stage'[p] # "absent"
         /\ ops[p][i].source \in Paths /\ (IsMove(p, i) => ops[p][i].target \in Paths)
         /\ snaps[p][i].version \in 1 .. uploaded /\ snaps[p][i].asset \in Uploads
         /\ (IsMove(p, i))' <=> IsMove(p, i)
  BY PlanFacts, Progress DEF IsMove, Created

\* What has run keeps having run: what moves explain stays explained.
LEMMA MoveStays ==
  ASSUME TypeOK, Shapes, [Next]_vars, NEW q \in Plans, NEW j \in DOMAIN ops[q], MoveRan(q, j)
  PROVE  /\ ops'[q] = ops[q] /\ snaps'[q] = snaps[q] /\ took'[q][j] = took[q][j]
         /\ MoveRan(q, j)'
<1>1. stage[q] # "absent" /\ Ran(q, j) /\ ops[q][j].type = "move_rename"
  BY DEF MoveRan, Ran
<1>2. /\ ops'[q] = ops[q] /\ snaps'[q] = snaps[q] /\ took'[q][j] = took[q][j]
      /\ Ran(q, j)'
  BY <1>1, Progress
<1> QED
  BY <1>1, <1>2 DEF MoveRan

LEMMA MovesStay ==
  ASSUME TypeOK, Shapes, [Next]_vars
  PROVE  /\ \A s : Returned(s) => Returned(s)'
         /\ \A s, c : TakenFrom(s, c) => TakenFrom(s, c)'
         /\ \A s, c, a : OtherMoveTo(s, c, a) => OtherMoveTo(s, c, a)'
<1>1. \A s : Returned(s) => Returned(s)'
  BY MoveStays DEF Returned
<1>2. \A s, c : TakenFrom(s, c) => TakenFrom(s, c)'
  BY MoveStays DEF TakenFrom
<1>3. \A s, c, a : OtherMoveTo(s, c, a) => OtherMoveTo(s, c, a)'
  BY MoveStays DEF OtherMoveTo
<1> QED
  BY <1>1, <1>2, <1>3

LEMMA DisturbedStays ==
  ASSUME TypeOK, Shapes, Created, [Next]_vars, NEW p \in Plans, NEW q \in Plans,
         stage[p] # "absent", stage[q] # "absent",
         NEW i \in DOMAIN ops[p], NEW j \in DOMAIN ops[q], Disturbed(p, i, q, j)
  PROVE  Disturbed(p, i, q, j)'
<1> DEFINE paths == {ops[p][i].source, ops[p][i].target, ops[q][j].target}
<1>1. /\ ops'[p] = ops[p] /\ ops'[q] = ops[q] /\ snaps'[p] = snaps[p]
      /\ snaps[p][i].version \in 1 .. uploaded
  BY Progress, OperationFacts
<1>2. ASSUME NEW r \in Plans, NEW k \in DOMAIN ops[r], MoveRan(r, k),
             <<r, k>> \notin {<<p, i>>, <<q, j>>}, ops[r][k].target \in paths
      PROVE  Disturbed(p, i, q, j)'
  BY <1>1, <1>2, MoveStays DEF Disturbed
<1>3. ASSUME NEW u \in 1 .. uploaded \ {snaps[p][i].version},
             Same(u, snaps[p][i].version), origin[u] \in paths
      PROVE  Disturbed(p, i, q, j)'
  <2>1. u \in 0 .. uploaded /\ u \in 1 .. uploaded' /\ origin'[u] = origin[u]
    BY FilesStay, UploadFacts
  <2>2. Same(u, snaps[p][i].version)'
    <3>1. PICK v : v = snaps[p][i].version
      OBVIOUS
    <3>2. Same(u, v)'
      BY <1>1, <1>3, <2>1, <3>1, FilesStay
    <3> QED
      BY <1>1, <3>1, <3>2 DEF Same
  <2> QED
    BY <1>1, <1>3, <2>1, <2>2 DEF Disturbed
<1> QED
  BY <1>2, <1>3 DEF Disturbed

\* How a file came to a path is never changed.
LEMMA CameToStays ==
  ASSUME TypeOK, Shapes, [Next]_vars, NEW f \in 1 .. uploaded, NEW x, CameTo(f, x)
  PROVE  CameTo(f, x)'
BY FilesStay, MoveStays DEF CameTo

LEMMA TracedStep ==
  ASSUME TypeOK, Shapes, Numbered, Traced, [Next]_vars
  PROVE  Traced'
<1>1. \A x \in Paths : disk[x] # Nothing => disk[x] \in 1 .. uploaded
  <2>1. disk \in [Paths -> Files]
    BY DEF TypeOK
  <2> QED
    BY <2>1, UploadFacts DEF Files, Uploads, Nothing, Numbered
<1>2. ASSUME NEW x \in Paths, disk'[x] # Nothing PROVE CameTo(disk[x], x)'
  <2>1. CASE disk'[x] = disk[x]
    <3>1. PICK f : f = disk[x]
      OBVIOUS
    <3>2. CameTo(f, x)'
      BY <1>1, <1>2, <2>1, <3>1, CameToStays DEF Traced
    <3> QED
      BY <2>1, <3>1, <3>2 DEF CameTo
  <2>2. CASE UploadWrite /\ x = upload.path /\ disk'[x] = uploaded + 1
    <3>1. origin' = [origin EXCEPT ![uploaded + 1] = x] /\ uploaded + 1 \in Uploads
      BY <2>2, UploadSteps, UploadFacts DEF Numbered, Uploads
    <3>2. origin \in [Uploads -> Paths \cup {None}]
      BY DEF TypeOK
    <3>3. origin'[disk'[x]] = x
      BY <2>2, <3>1, <3>2
    <3> QED
      BY <3>3 DEF CameTo
  <2>3. ASSUME NEW p \in Plans, NEW k \in DOMAIN ops[p], stage[p] # "absent", IsMove(p, k),
               Ran(p, k)', ops[p][k].target = x, took'[p][k] = disk'[x]
        PROVE  CameTo(disk[x], x)'
    <3>1. ops'[p] = ops[p]
      BY <2>3, Progress
    <3>2. MoveRan(p, k)' /\ k \in DOMAIN ops'[p] /\ ops'[p][k].target = x
      BY <2>3, <3>1 DEF MoveRan, IsMove
    <3> QED
      BY <2>3, <3>2 DEF CameTo
  <2> QED
    BY <1>2, <2>1, <2>2, <2>3, FileFrom
<1>3. ASSUME NEW p \in Plans, NEW i \in DOMAIN ops'[p], MoveRan(p, i)'
      PROVE  took'[p][i] \in 1 .. uploaded' /\ CameTo(took[p][i], ops[p][i].source)'
  <2>1. stage[p] # "absent" /\ Ran(p, i)'
    BY <1>3, Progress DEF MoveRan
  <2>2. ops'[p] = ops[p] /\ i \in DOMAIN ops[p] /\ IsMove(p, i) /\ ops[p][i].source \in Paths
    BY <1>3, <2>1, Progress, PlanFacts DEF MoveRan, IsMove
  <2>3. took'[p][i] \in 1 .. uploaded /\ CameTo(took'[p][i], ops[p][i].source)
    <3>1. CASE Ran(p, i)
      <4>1. MoveRan(p, i) /\ took'[p][i] = took[p][i]
        BY <2>1, <2>2, <3>1, Progress DEF MoveRan, IsMove
      <4> QED
        BY <2>2, <4>1 DEF Traced
    <3>2. CASE ~Ran(p, i)
      <4>1. Execute(p) /\ i = at[p] /\ stage'[p] # "failed"
        BY <2>1, <2>2, <3>2, Progress
      <4>2. disk[ops[p][i].source] # Nothing /\ took'[p][i] = disk[ops[p][i].source]
        BY <2>2, <4>1, Carried
      <4> QED
        BY <1>1, <2>2, <4>2 DEF Traced
    <3> QED
      BY <3>1, <3>2
  <2>4. PICK f, x : f = took'[p][i] /\ x = ops[p][i].source
    OBVIOUS
  <2>5. CameTo(f, x)'
    BY <2>3, <2>4, CameToStays
  <2>6. took'[p][i] \in 1 .. uploaded'
    BY <2>3, FilesStay, UploadFacts
  <2> QED
    BY <2>2, <2>4, <2>5, <2>6 DEF CameTo
<1> QED
  BY <1>2, <1>3 DEF Traced

\* On the paths of undisturbed rivals only the version itself has the version's bytes.
LEMMA OnlyVersion ==
  ASSUME TypeOK, Numbered, Traced, NEW p \in Plans, NEW q \in Plans,
         NEW i \in DOMAIN ops[p], NEW j \in DOMAIN ops[q],
         Rivals(p, i, q, j), ~Disturbed(p, i, q, j),
         NEW x \in {ops[p][i].source, ops[p][i].target, ops[q][j].target}, x \in Paths,
         Same(disk[x], snaps[p][i].version)
  PROVE  disk[x] = snaps[p][i].version
<1> DEFINE s == ops[p][i].source
           f == disk[x]
<1> SUFFICES ASSUME f # snaps[p][i].version PROVE FALSE
  OBVIOUS
<1>1. f # Nothing /\ f \in 1 .. uploaded
  <2>1. disk \in [Paths -> Files] /\ f # Nothing
    BY DEF TypeOK, Same
  <2> QED
    BY <2>1, UploadFacts DEF Files, Uploads, Nothing, Numbered
<1>2. origin[f] \notin {s, ops[p][i].target, ops[q][j].target}
  BY <1>1 DEF Disturbed
<1>3. ASSUME NEW r \in Plans, NEW k \in DOMAIN ops[r], MoveRan(r, k),
             ops[r][k].target \in {s, ops[p][i].target, ops[q][j].target}
      PROVE  ops[r][k].source = s /\ ops[r][k].target # s
  <2>1. <<r, k>> \in {<<p, i>>, <<q, j>>}
    BY <1>3 DEF Disturbed
  <2>2. \/ r = p /\ k = i
        \/ r = q /\ k = j
    BY <2>1
  <2> QED
    BY <2>2 DEF Rivals
<1>4. PICK r \in Plans : \E k \in DOMAIN ops[r] :
        MoveRan(r, k) /\ ops[r][k].target = x /\ took[r][k] = f
  BY <1>1, <1>2 DEF Traced, CameTo
<1>5. PICK k \in DOMAIN ops[r] : MoveRan(r, k) /\ ops[r][k].target = x /\ took[r][k] = f
  BY <1>4
<1>6. CameTo(f, s)
  BY <1>3, <1>5 DEF Traced
<1> QED
  BY <1>2, <1>3, <1>6 DEF CameTo

\* A file that is nowhere comes back nowhere: an upload writes a new number.
LEMMA GoneStays ==
  ASSUME TypeOK, Shapes, [Next]_vars, NEW c \in 1 .. uploaded, Gone(c)
  PROVE  Gone(c)'
<1> SUFFICES ASSUME NEW x \in Paths, disk'[x] = c PROVE FALSE
  BY DEF Gone
<1>1. c # Nothing /\ c # uploaded + 1
  BY UploadFacts DEF Nothing
<1> QED
  BY <1>1, FileFrom DEF Gone

\* A file leaves a path with a move, or it is overwritten or removed and nowhere.
LEMMA StaysStays ==
  ASSUME TypeOK, Shapes, OneCopy, [Next]_vars, NEW s \in Paths, NEW c \in 1 .. uploaded,
         Stays(s, c)
  PROVE  Stays(s, c)'
<1>1. CASE Gone(c)
  BY <1>1, GoneStays DEF Stays
<1>2. CASE TakenFrom(s, c)
  BY <1>2, MovesStay DEF Stays
<1>3. CASE disk[s] = c /\ disk'[s] # c
  <2>1. /\ c # Nothing /\ c # uploaded + 1 /\ disk \in [Paths -> Files]
        /\ \A x \in Paths : x # s => disk[x] # c
    BY <1>3, UploadFacts DEF Nothing, TypeOK, OneCopy
  <2>2. CASE disk' = [disk EXCEPT ![upload.path] = uploaded + 1]
    BY <1>3, <2>1, <2>2 DEF Gone, Stays
  <2>3. ASSUME NEW p \in Plans, Execute(p), stage'[p] # "failed", NEW k, k = at[p],
               \/ IsMove(p, k)
               \/ disk' = [disk EXCEPT ![ops[p][k].source] = Nothing]
        PROVE  Stays(s, c)'
    <3>1. /\ stage[p] = "execute" /\ k \in DOMAIN ops[p] /\ Ran(p, k)'
          /\ IsMove(p, k) => /\ disk' = [disk EXCEPT ![ops[p][k].source] = Nothing,
                                               ![ops[p][k].target] = disk[ops[p][k].source]]
                             /\ took'[p][k] = disk[ops[p][k].source]
      BY <2>3, Carried
    <3>2. ops[p][k].source \in Paths /\ (IsMove(p, k) => ops[p][k].target \in Paths)
      BY <3>1, PlanFacts DEF IsMove
    <3>3. CASE disk' = [disk EXCEPT ![ops[p][k].source] = Nothing]
      BY <1>3, <2>1, <3>2, <3>3 DEF Gone, Stays
    <3>4. CASE IsMove(p, k) /\ ops[p][k].source = s
      <4>1. ops' = ops
        BY <2>3 DEF Execute
      <4>2. /\ MoveRan(p, k)' /\ k \in DOMAIN ops'[p] /\ ops'[p][k].source = s
            /\ took'[p][k] = c
        BY <1>3, <3>1, <3>4, <4>1 DEF MoveRan, IsMove
      <4> QED
        BY <4>2 DEF Stays, TakenFrom
    <3>5. CASE IsMove(p, k) /\ ops[p][k].source # s
      <4>1. \A x \in Paths : disk'[x] # c
        BY <1>3, <2>1, <3>1, <3>2, <3>5
      <4> QED
        BY <4>1 DEF Gone, Stays
    <3> QED
      BY <2>3, <3>3, <3>4, <3>5
  <2> QED
    BY <1>3, <2>2, <2>3, DiskStep
<1>4. CASE disk'[s] = c
  BY <1>4 DEF Stays
<1> QED
  BY <1>1, <1>2, <1>3, <1>4 DEF Stays

LEMMA LeftStep ==
  ASSUME TypeOK, Shapes, Created, Left, [Next]_vars
  PROVE  Left'
<1> SUFFICES ASSUME NEW p \in Plans, NEW i \in DOMAIN ops'[p], MoveRan(p, i)',
                    NEW s, s = ops'[p][i].source, NEW c, c = snaps'[p][i].version, ~Returned(s)'
             PROVE  disk'[s] # c
  BY DEF Left, Returned
<1>1. stage[p] # "absent" /\ Ran(p, i)'
  BY Progress DEF MoveRan
<1>2. ops'[p] = ops[p] /\ snaps'[p] = snaps[p]
  BY <1>1, Progress
<1>3. IsMove(p, i) /\ i \in DOMAIN ops[p] /\ s = ops[p][i].source /\ c = snaps[p][i].version
  BY <1>2 DEF MoveRan, IsMove
<1>4. s \in Paths /\ ops[p][i].target \in Paths /\ c # Nothing /\ c # uploaded + 1
  BY <1>1, <1>2, <1>3, OperationFacts, UploadFacts DEF Nothing
<1>5. ASSUME NEW r \in Plans, NEW k \in DOMAIN ops[r], stage[r] # "absent", IsMove(r, k),
             Ran(r, k)', ops[r][k].target = s
      PROVE  FALSE
  <2>1. ops'[r] = ops[r]
    BY <1>5, Progress
  <2>2. ops'[r][k].type = "move_rename"
    BY <1>5, <2>1 DEF IsMove
  <2>3. k \in DOMAIN ops'[r] /\ MoveRan(r, k)'
    BY <1>5, <2>1, <2>2 DEF MoveRan
  <2> QED
    BY <1>5, <2>1, <2>3 DEF Returned
<1>6. CASE Ran(p, i)
  <2>1. MoveRan(p, i) /\ ~Returned(s)
    BY <1>3, <1>6, MovesStay DEF MoveRan, IsMove
  <2>2. disk[s] # c
    BY <1>3, <2>1 DEF Left
  <2> QED
    BY <1>4, <1>5, <2>2, FileFrom
<1>7. CASE ~Ran(p, i)
  <2>1. Execute(p) /\ i = at[p] /\ stage'[p] # "failed"
    BY <1>1, <1>3, <1>7, Progress
  <2>2. /\ disk' = [disk EXCEPT ![s] = Nothing, ![ops[p][i].target] = disk[s]]
        /\ disk \in [Paths -> Files]
    BY <1>3, <2>1, Carried DEF TypeOK
  <2>3. ops[p][i].target # s
    BY <1>1, <1>3, <1>5
  <2> QED
    BY <1>4, <2>2, <2>3
<1> QED
  BY <1>6, <1>7

\* A step carries out one operation, and none while it checks one.
LEMMA OneAtATime ==
  ASSUME TypeOK, Shapes, [Next]_vars, NEW p \in Plans, NEW q \in Plans,
         stage[p] # "absent", stage[q] # "absent",
         NEW i \in DOMAIN ops[p], NEW j \in DOMAIN ops[q],
         IsMove(p, i), ops[p][i].source # ops[p][i].target, ~Ran(p, i), Ran(p, i)'
  PROVE  /\ disk[ops[p][i].source] # Nothing
         /\ disk' = [disk EXCEPT ![ops[p][i].source] = Nothing,
                                 ![ops[p][i].target] = disk[ops[p][i].source]]
         /\ <<q, j>> # <<p, i>> /\ Ran(q, j)' => Ran(q, j)
         /\ Checked(q, j)' => Checked(q, j)
<1>1. Execute(p) /\ i = at[p] /\ stage'[p] # "failed"
  BY Progress
<1>2. /\ disk[ops[p][i].source] # Nothing
      /\ disk' = [disk EXCEPT ![ops[p][i].source] = Nothing,
                              ![ops[p][i].target] = disk[ops[p][i].source]]
  BY <1>1, Carried
<1>3. disk' # disk
  <2>1. ops[p][i].source \in Paths /\ disk \in [Paths -> Files]
    BY PlanFacts DEF TypeOK
  <2> QED
    BY <1>2, <2>1
<1>4. CASE q = p
  <2>1. j \in DOMAIN ops[p]
    BY <1>4
  <2>2. Checked(p, j)' => Checked(p, j)
    BY <1>3, <2>1, Progress
  <2>3. Ran(p, j)' /\ ~Ran(p, j) => j = i
    BY <1>1, <2>1, Progress
  <2> QED
    BY <1>2, <1>4, <2>2, <2>3
<1>5. CASE q # p
  <2>1. stage'[q] = stage[q] /\ at'[q] = at[q]
    BY <1>1, <1>5, ExecuteFacts
  <2> QED
    BY <1>2, <2>1 DEF Ran, Checked
<1> QED
  BY <1>4, <1>5

\* A rival's paths are only written by the rivals, unless they are disturbed.
LEMMA Undisturbed ==
  ASSUME TypeOK, Shapes, Created, Left, [Next]_vars, NEW p \in Plans, NEW q \in Plans,
         stage[p] # "absent", stage[q] # "absent",
         NEW i \in DOMAIN ops[p], NEW j \in DOMAIN ops[q],
         Rivals(p, i, q, j), ~Disturbed(p, i, q, j)'
  PROVE  /\ Ran(p, i) => disk[ops[p][i].source] # snaps[p][i].version
         /\ Ran(p, i) /\ disk'[ops[p][i].target] = snaps[p][i].version
              /\ (Ran(q, j) \/ ops[q][j].target # ops[p][i].target)
              => disk[ops[p][i].target] = snaps[p][i].version
<1>1. /\ ops'[p] = ops[p] /\ ops'[q] = ops[q] /\ IsMove(p, i) /\ IsMove(q, j)
      /\ ops[p][i].source = ops[q][j].source
      /\ ops[p][i].source \notin {ops[p][i].target, ops[q][j].target}
  BY Progress DEF Rivals
<1>2. ASSUME NEW r \in Plans, NEW k \in DOMAIN ops[r], stage[r] # "absent", IsMove(r, k),
             Ran(r, k)', <<r, k>> \notin {<<p, i>>, <<q, j>>}
      PROVE  ops[r][k].target \notin {ops[p][i].source, ops[p][i].target, ops[q][j].target}
  <2>1. ops'[r] = ops[r]
    BY <1>2, Progress
  <2>2. ops'[r][k].type = "move_rename"
    BY <1>2, <2>1 DEF IsMove
  <2>3. k \in DOMAIN ops'[r] /\ MoveRan(r, k)'
    BY <1>2, <2>1, <2>2 DEF MoveRan
  <2>4. ops'[r][k].target \notin {ops'[p][i].source, ops'[p][i].target, ops'[q][j].target}
    BY <1>2, <2>3 DEF Disturbed
  <2> QED
    BY <1>1, <2>1, <2>4
<1>3. ASSUME Ran(p, i) PROVE disk[ops[p][i].source] # snaps[p][i].version
  <2>1. MoveRan(p, i)
    BY <1>1, <1>3 DEF MoveRan, IsMove
  <2>2. ~Returned(ops[p][i].source)
    <3> SUFFICES ASSUME NEW r \in Plans, NEW k \in DOMAIN ops[r], MoveRan(r, k),
                        ops[r][k].target = ops[p][i].source
                 PROVE  FALSE
      BY DEF Returned
    <3>1. stage[r] # "absent" /\ IsMove(r, k) /\ Ran(r, k)
      BY DEF MoveRan, Ran, IsMove
    <3>2. Ran(r, k)'
      BY <3>1, Progress
    <3>3. <<r, k>> \notin {<<p, i>>, <<q, j>>}
      BY <1>1
    <3> QED
      BY <1>2, <3>1, <3>2, <3>3
  <2> QED
    BY <2>1, <2>2 DEF Left
<1>4. ASSUME Ran(p, i), disk'[ops[p][i].target] = snaps[p][i].version,
             Ran(q, j) \/ ops[q][j].target # ops[p][i].target
      PROVE  disk[ops[p][i].target] = snaps[p][i].version
  <2>1. /\ ops[p][i].target \in Paths
        /\ snaps[p][i].version # Nothing /\ snaps[p][i].version # uploaded + 1
    BY <1>1, OperationFacts, UploadFacts DEF Nothing
  <2>2. ASSUME NEW r \in Plans, NEW k \in DOMAIN ops[r], stage[r] # "absent", IsMove(r, k),
               ~Ran(r, k), Ran(r, k)', ops[r][k].target = ops[p][i].target
        PROVE  FALSE
    <3>1. <<r, k>> # <<p, i>>
      BY <1>4, <2>2
    <3>2. <<r, k>> # <<q, j>>
      BY <1>4, <2>2
    <3> QED
      BY <1>2, <2>2, <3>1, <3>2
  <2> QED
    BY <1>4, <2>1, <2>2, FileFrom
<1> QED
  BY <1>3, <1>4

\* The first half of a duel: two rivals cannot both have put the version where one looks.
LEMMA DuelRuns ==
  ASSUME TypeOK, Shapes, Numbered, OneCopy, Created, Traced, Left, [Next]_vars,
         NEW p \in Plans, NEW q \in Plans,
         stage[p] # "absent", stage[q] # "absent",
         NEW i \in DOMAIN ops[p], NEW j \in DOMAIN ops[q],
         Rivals(p, i, q, j), ~Disturbed(p, i, q, j)', Duel(p, i, q, j),
         NEW s, s = ops[p][i].source, NEW x, x = ops[p][i].target, NEW y, y = ops[q][j].target,
         NEW c, c = snaps[p][i].version,
         Ran(p, i)', IF x = y THEN Ran(q, j)' ELSE Checked(q, j)'
  PROVE  disk'[x] # c
<1>1. /\ <<p, i>> # <<q, j>> /\ IsMove(p, i) /\ IsMove(q, j) /\ s = ops[q][j].source
      /\ s \notin {x, y} /\ snaps[q][j] = snaps[p][i]
  BY DEF Rivals
<1>2. /\ s \in Paths /\ x \in Paths /\ y \in Paths /\ c # Nothing
      /\ disk \in [Paths -> Files]
  BY <1>1, OperationFacts DEF Nothing, TypeOK
<1>3. Ran(p, i) => disk[s] # c
  BY Undisturbed
<1>4. Ran(q, j) => disk[s] # c
  <2>1. Rivals(q, j, p, i)
    BY <1>1 DEF Rivals
  <2>2. Disturbed(q, j, p, i)' => Disturbed(p, i, q, j)'
    <3>1. /\ ops'[p] = ops[p] /\ ops'[q] = ops[q]
          /\ snaps'[p][i] = snaps'[q][j]
      BY <1>1, Progress
    <3>2. {ops'[q][j].source, ops'[q][j].target, ops'[p][i].target}
            = {ops'[p][i].source, ops'[p][i].target, ops'[q][j].target}
      BY <1>1, <3>1
    <3>3. {<<q, j>>, <<p, i>>} = {<<p, i>>, <<q, j>>}
      OBVIOUS
    <3> QED
      BY <3>1, <3>2, <3>3 DEF Disturbed
  <2>3. Ran(q, j) => disk[ops[q][j].source] # snaps[q][j].version
    BY <2>1, <2>2, Undisturbed
  <2> QED
    BY <1>1, <2>3
<1>5. Checked(q, j) => Ran(q, j)
  BY Progress
<1>6. CASE ~Ran(p, i)
  <2>0. /\ ops[p][i].source # ops[p][i].target /\ <<q, j>> # <<p, i>>
        /\ ~Ran(p, i) /\ Ran(p, i)' /\ IsMove(p, i)
    BY <1>1, <1>6
  <2>1. /\ disk' = [disk EXCEPT ![s] = Nothing, ![x] = disk[s]]
        /\ Ran(q, j)' => Ran(q, j)
        /\ Checked(q, j)' => Checked(q, j)
    BY <2>0, OneAtATime
  <2> QED
    BY <1>2, <1>4, <1>5, <2>1
<1>7. CASE Ran(p, i) /\ x = y /\ ~Ran(q, j)
  <2>1. disk' = [disk EXCEPT ![s] = Nothing, ![y] = disk[s]]
    BY <1>1, <1>7, OneAtATime
  <2> QED
    BY <1>2, <1>3, <1>7, <2>1
<1>8. CASE Ran(p, i) /\ x # y /\ ~Checked(q, j)
  <2>1. disk' = disk /\ Matches(q, j)
    BY <1>8, Progress
  <2>2. Same(disk[y], c)
    BY <1>1, <2>1 DEF Matches
  <2>3. ~Disturbed(p, i, q, j)
    BY DisturbedStays
  <2>4. disk[y] = c
    BY <1>2, <2>2, <2>3, OnlyVersion
  <2> QED
    BY <1>2, <1>8, <2>1, <2>4 DEF OneCopy
<1>9. CASE Ran(p, i) /\ (IF x = y THEN Ran(q, j) ELSE Checked(q, j))
  <2>1. disk[x] # c
    BY <1>9 DEF Duel
  <2>2. Ran(q, j) \/ y # x
    BY <1>9
  <2> QED
    BY <1>9, <2>1, <2>2, Undisturbed
<1> QED
  BY <1>6, <1>7, <1>8, <1>9

LEMMA DuelsStep ==
  ASSUME TypeOK, Shapes, Numbered, OneCopy, Created, Traced, Left, Duels, [Next]_vars
  PROVE  Duels'
<1> SUFFICES ASSUME NEW p \in Plans, NEW q \in Plans, stage'[p] # "absent", stage'[q] # "absent",
                    NEW i \in DOMAIN ops'[p], NEW j \in DOMAIN ops'[q],
                    Rivals(p, i, q, j)', ~Disturbed(p, i, q, j)'
             PROVE  Duel(p, i, q, j)'
  BY DEF Duels
<1>1. CASE stage[p] = "absent" \/ stage[q] = "absent"
  <2>1. \/ ~Ran(p, i)' /\ ~Checked(p, i)'
        \/ ~Ran(q, j)' /\ ~Checked(q, j)'
    BY <1>1, Progress
  <2> QED
    BY <2>1 DEF Duel
<1>2. CASE stage[p] # "absent" /\ stage[q] # "absent"
  <2>1. ops'[p] = ops[p] /\ snaps'[p] = snaps[p] /\ ops'[q] = ops[q] /\ snaps'[q] = snaps[q]
    BY <1>2, Progress
  <2>2. i \in DOMAIN ops[p] /\ j \in DOMAIN ops[q] /\ Rivals(p, i, q, j) /\ Rivals(q, j, p, i)
    BY <2>1 DEF Rivals, IsMove
  <2>3. ~Disturbed(q, j, p, i)'
    <3>1. /\ snaps'[q][j].version = snaps'[p][i].version
          /\ {ops'[q][j].source, ops'[q][j].target, ops'[p][i].target}
               = {ops'[p][i].source, ops'[p][i].target, ops'[q][j].target}
          /\ {<<q, j>>, <<p, i>>} = {<<p, i>>, <<q, j>>}
      BY <2>1, <2>2 DEF Rivals
    <3> QED
      BY <3>1 DEF Disturbed
  <2>4. ~Disturbed(p, i, q, j) /\ ~Disturbed(q, j, p, i)
    <3>1. ~Disturbed(p, i, q, j)
      BY <1>2, <2>2, DisturbedStays
    <3>2. ~Disturbed(q, j, p, i)
      BY <1>2, <2>2, <2>3, DisturbedStays
    <3> QED
      BY <3>1, <3>2
  <2>5. Duel(p, i, q, j) /\ Duel(q, j, p, i)
    BY <1>2, <2>2, <2>4 DEF Duels
  <2> DEFINE x == ops[p][i].target
             y == ops[q][j].target
             c == snaps[p][i].version
  <2>6. /\ Ran(p, i)' /\ (IF x = y THEN Ran(q, j)' ELSE Checked(q, j)') => disk'[x] # c
        /\ Ran(q, j)' /\ (IF y = x THEN Ran(p, i)' ELSE Checked(p, i)') => disk'[y] # c
    <3>1. snaps[q][j] = snaps[p][i]
      BY <2>2 DEF Rivals
    <3>2. Ran(p, i)' /\ (IF x = y THEN Ran(q, j)' ELSE Checked(q, j)') => disk'[x] # c
      BY <1>2, <2>2, <2>5, DuelRuns
    <3>3. Ran(q, j)' /\ (IF y = x THEN Ran(p, i)' ELSE Checked(p, i)') => disk'[y] # c
      BY <1>2, <2>2, <2>3, <2>5, <3>1, DuelRuns
    <3> QED
      BY <3>2, <3>3
  <2>7. ~(Checked(p, i)' /\ Checked(q, j)')
    <3>1. SUFFICES ASSUME Checked(p, i)', Checked(q, j)' PROVE FALSE
      OBVIOUS
    <3>2. Ran(p, i)' /\ Ran(q, j)'
      <4>1. (Checked(p, i) => Ran(p, i)) /\ (Checked(q, j) => Ran(q, j))
        BY <1>2, <2>2, Progress
      <4> QED
        BY <1>2, <2>2, <3>1, <4>1, Progress
    <3>3. disk'[x] # c /\ disk'[y] # c
      BY <2>6, <3>1, <3>2
    <3>4. ~Checked(p, i) \/ ~Checked(q, j)
      BY <2>5 DEF Duel
    <3>5. ASSUME ~Checked(p, i) PROVE FALSE
      <4>1. disk' = disk /\ Matches(p, i)
        BY <1>2, <2>2, <3>1, <3>5, Progress
      <4>2. /\ IsMove(p, i) /\ snaps[q][j] = snaps[p][i]
            /\ ops[p][i].target \in Paths /\ ops[q][j].target \in Paths
        BY <1>2, <2>2, OperationFacts DEF Rivals
      <4>3. disk[ops[p][i].target] = c
        BY <2>2, <2>4, <4>1, <4>2, OnlyVersion DEF Matches
      <4> QED
        BY <3>3, <4>1, <4>3
    <3>6. ASSUME ~Checked(q, j) PROVE FALSE
      <4>1. disk' = disk /\ Matches(q, j)
        BY <1>2, <2>2, <3>1, <3>6, Progress
      <4>2. /\ IsMove(q, j) /\ snaps[q][j] = snaps[p][i]
            /\ ops[p][i].target \in Paths /\ ops[q][j].target \in Paths
        BY <1>2, <2>2, OperationFacts DEF Rivals
      <4>3. disk[ops[q][j].target] = c
        BY <2>2, <2>4, <4>1, <4>2, OnlyVersion DEF Matches
      <4> QED
        BY <3>3, <4>1, <4>3
    <3> QED
      BY <3>4, <3>5, <3>6
  <2>8. /\ Ran(p, i)' /\ (IF ops'[p][i].target = ops'[q][j].target
                          THEN Ran(q, j)' ELSE Checked(q, j)')
             => disk'[ops'[p][i].target] # snaps'[p][i].version
    BY <2>1, <2>6
  <2> HIDE DEF x, y, c
  <2> QED
    BY <2>7, <2>8 DEF Duel
<1> QED
  BY <1>1, <1>2

LEMMA LocatedStays ==
  ASSUME TypeOK, Shapes, OneCopy, [Next]_vars, NEW s \in Paths, NEW c \in 1 .. uploaded, NEW a,
         Located(s, c, a)
  PROVE  Located(s, c, a)'
<1>1. CASE Stays(s, c)
  BY <1>1, StaysStays DEF Located
<1>2. CASE OtherMoveTo(s, c, a)
  BY <1>2, MovesStay DEF Located
<1> QED
  BY <1>1, <1>2 DEF Located

\* Records: a registration names the path of its file, a verified move the file's new one.
LEMMA RecordsLocated ==
  ASSUME TypeOK, Shapes, Numbered, OneCopy, Created, Whereabouts, [Next]_vars,
         NEW a \in Uploads, NEW s, s = assetPath'[a], s # None, NEW c, c = active'[a]
  PROVE  Located(s, c, a)'
<1>1. assetPath \in [Uploads -> Paths \cup {None}] /\ active \in [Uploads -> Files]
  BY DEF TypeOK
<1>2. CASE assetPath[a] = s /\ active[a] = c
  <2>1. s \in Paths /\ c \in 1 .. uploaded /\ Located(s, c, a)
    BY <1>1, <1>2 DEF Numbered, Whereabouts
  <2> QED
    BY <2>1, LocatedStays
<1>3. CASE UploadRegister
  <2>1. PICK asset \in Uploads :
          /\ upload.step = "register" /\ upload.path \in Paths /\ uploaded \in Uploads
          /\ assetPath' = [assetPath EXCEPT ![asset] = upload.path]
          /\ active' = [active EXCEPT ![asset] = uploaded]
    BY <1>3, RegisterFacts
  <2>2. CASE a = asset
    <3>1. s = upload.path /\ c = uploaded /\ Stays(s, c)
      BY <1>1, <2>1, <2>2 DEF Whereabouts
    <3>2. s \in Paths /\ c \in 1 .. uploaded
      BY <2>1, <3>1, UploadFacts DEF Uploads
    <3> QED
      BY <3>1, <3>2, StaysStays DEF Located
  <2>3. CASE a # asset
    BY <1>1, <1>2, <2>1, <2>3
  <2> QED
    BY <2>2, <2>3
<1>4. ASSUME NEW p \in Plans, NEW k \in DOMAIN ops[p], stage[p] = "apply", IsMove(p, k),
             active' = active,
             assetPath' = [assetPath EXCEPT ![snaps[p][k].asset] = ops[p][k].target]
      PROVE  Located(s, c, a)'
  <2>1. stage[p] # "absent" /\ Ran(p, k) /\ MoveRan(p, k)
    BY <1>4 DEF MoveRan, Ran, IsMove
  <2>2. CASE a = snaps[p][k].asset
    <3>1. s = ops[p][k].target /\ s \in Paths /\ c = active[a]
      BY <1>1, <1>4, <2>1, <2>2, OperationFacts
    <3>2. c \in 1 .. uploaded
      BY <1>4, <2>1, <2>2, <3>1 DEF Created, Numbered
    <3>3. CASE took[p][k] = c
      BY <1>4, <2>1, <3>1, <3>2, <3>3, StaysStays DEF Whereabouts, Located
    <3>4. CASE took[p][k] # c
      <4>1. OtherMoveTo(s, c, a)
        BY <2>1, <2>2, <3>1, <3>4 DEF OtherMoveTo
      <4> QED
        BY <4>1, MovesStay DEF Located
    <3> QED
      BY <3>3, <3>4
  <2>3. CASE a # snaps[p][k].asset
    BY <1>1, <1>2, <1>4, <2>3
  <2> QED
    BY <2>2, <2>3
<1> QED
  BY <1>2, <1>3, <1>4, RecordStep

\* An upload: the file it wrote stays where it wrote it.
LEMMA UploadLocated ==
  ASSUME TypeOK, Shapes, Numbered, OneCopy, Whereabouts, [Next]_vars,
         upload'.step = "register", NEW s, s = upload'.path, NEW c, c = uploaded'
  PROVE  Stays(s, c)'
<1>1. CASE UploadWrite
  <2>1. /\ disk' = [disk EXCEPT ![s] = uploaded + 1] /\ c = uploaded + 1
        /\ s \in Paths /\ disk \in [Paths -> Files]
    BY <1>1, UploadSteps, UploadFacts DEF TypeOK
  <2> QED
    BY <2>1 DEF Stays
<1>2. CASE upload' = upload /\ uploaded' = uploaded
  <2>1. /\ Stays(s, c) /\ s \in Paths /\ c \in 1 .. uploaded
    BY <1>2, UploadFacts DEF Whereabouts, Numbered
  <2> QED
    BY <2>1, StaysStays
<1>3. ~UploadCheck /\ ~UploadProbe /\ ~UploadRegister
  BY UploadSteps, UploadFacts
<1>4. UNCHANGED vars => upload' = upload /\ uploaded' = uploaded
  BY DEF vars, files
<1> QED
  BY <1>1, <1>2, <1>3, <1>4, NextKinds, PlansKeepUploads

\* Plans: the snapshot of a new one is its record's, and operations account for the rest.
LEMMA PlansLocated ==
  ASSUME TypeOK, Shapes, Numbered, OneCopy, Created, Traced, Whereabouts, [Next]_vars,
         NEW p \in Plans, stage'[p] # "absent", NEW i \in DOMAIN ops'[p],
         NEW s, s = ops'[p][i].source, NEW c, c = snaps'[p][i].version,
         NEW a, a = snaps'[p][i].asset, NEW x, x = ops'[p][i].target, NEW t, t = took'[p][i]
  PROVE  /\ Located(s, c, a)'
         /\ ops'[p][i].type = "move_rename" /\ Ran(p, i)' => Stays(x, t)'
         /\ ops'[p][i].type = "trash" /\ Ran(p, i)' =>
              Gone(c)' \/ TakenFrom(s, c)' \/ OtherMoveTo(s, c, a)'
<1>1. CASE stage[p] = "absent"
  <2>1. ~Ran(p, i)'
    BY <1>1, Progress
  <2>2. CreatePlan(p)
    BY <1>1, CreatedAlone
  <2>3. assetPath' = assetPath /\ active' = active
    BY <2>2 DEF CreatePlan, assets
  <2>4. a = AssetAt(s) /\ c = active[a] /\ AssetsAt(s) # {}
    <3>0. /\ snaps'[p] = [k \in DOMAIN ops'[p] |->
                [asset |-> AssetAt(ops'[p][k].source),
                 version |-> active[AssetAt(ops'[p][k].source)]]]
          /\ \A k \in DOMAIN ops'[p] : AssetsAt(ops'[p][k].source) # {}
      BY <2>2, CreateFacts
    <3>1. ASSUME NEW b, b = AssetAt(ops'[p][i].source)
          PROVE  snaps'[p][i] = [asset |-> b, version |-> active[b]]
      BY <3>0, <3>1
    <3>2. snaps'[p][i] = [asset |-> AssetAt(s), version |-> active[AssetAt(s)]]
      BY <3>1
    <3>3. AssetsAt(s) # {}
      BY <3>0
    <3> QED
      BY <3>2, <3>3
  <2>5. a \in Uploads /\ assetPath[a] = s
    BY <2>4, AssetAtPath
  <2>6. s # None
    <3>1. TypeOK'
      BY TypeStep
    <3>2. PICK n \in 1 .. MaxOps : ops'[p] \in [1 .. n -> Operations]
      BY <2>2, CreateFacts DEF SeqsUpTo
    <3>3. ops'[p][i] \in Operations
      BY <3>2
    <3> QED
      BY <3>3, ControlledDirectoryAssumption DEF Operations, ControlledDirectoryAssumption
  <2> QED
    BY <2>1, <2>3, <2>4, <2>5, <2>6, RecordsLocated
<1>2. CASE stage[p] # "absent"
  <2>1. /\ ops'[p] = ops[p] /\ snaps'[p] = snaps[p] /\ i \in DOMAIN ops[p]
        /\ s \in Paths /\ (IsMove(p, i) => x \in Paths)
        /\ c \in 1 .. uploaded /\ c # Nothing /\ a \in Uploads
        /\ disk \in [Paths -> Files]
    <3>1. ops'[p] = ops[p] /\ snaps'[p] = snaps[p]
      BY <1>2, Progress
    <3> QED
      BY <1>2, <3>1, OperationFacts DEF Nothing, TypeOK
  <2>2. Located(s, c, a)
    BY <1>2, <2>1 DEF Whereabouts
  <2>3. ASSUME ops'[p][i].type = "move_rename", Ran(p, i)'
        PROVE  Stays(x, t)'
    <3>1. IsMove(p, i) /\ x \in Paths
      BY <2>1, <2>3 DEF IsMove
    <3>2. CASE Ran(p, i)
      <4>1. t = took[p][i] /\ MoveRan(p, i)
        BY <1>2, <2>1, <3>1, <3>2, Progress DEF MoveRan, IsMove
      <4>2. t \in 1 .. uploaded /\ Stays(x, t)
        BY <1>2, <2>1, <3>1, <3>2, <4>1 DEF Traced, Whereabouts
      <4> QED
        BY <3>1, <4>2, StaysStays
    <3>3. CASE ~Ran(p, i)
      <4>1. Execute(p) /\ i = at[p] /\ stage'[p] # "failed"
        BY <1>2, <2>1, <2>3, <3>3, Progress
      <4>2. disk' = [disk EXCEPT ![s] = Nothing, ![x] = disk[s]] /\ t = disk[s]
        BY <2>1, <3>1, <4>1, Carried
      <4>3. disk'[x] = t
        BY <2>1, <3>1, <4>2
      <4> QED
        BY <4>3 DEF Stays
    <3> QED
      BY <3>2, <3>3
  <2>4. ASSUME ops'[p][i].type = "trash", Ran(p, i)'
        PROVE  Gone(c)' \/ TakenFrom(s, c)' \/ OtherMoveTo(s, c, a)'
    <3>1. CASE Gone(c) \/ TakenFrom(s, c) \/ OtherMoveTo(s, c, a)
      BY <2>1, <3>1, GoneStays, MovesStay
    <3>2. CASE ~Ran(p, i) /\ disk[s] = c
      <4>1. Execute(p) /\ i = at[p] /\ stage'[p] # "failed"
        BY <1>2, <2>1, <2>4, <3>2, Progress
      <4>2. disk' = [disk EXCEPT ![s] = Nothing]
        BY <2>1, <2>4, <4>1, Carried
      <4> QED
        BY <2>1, <3>2, <4>2 DEF OneCopy, Gone
    <3>3. CASE Ran(p, i)
      BY <1>2, <2>1, <2>4, <3>1, <3>3 DEF Whereabouts
    <3> QED
      BY <2>2, <3>1, <3>2, <3>3 DEF Located, Stays
  <2> QED
    BY <2>1, <2>2, <2>3, <2>4, LocatedStays
<1> QED
  BY <1>1, <1>2

LEMMA WhereaboutsStep ==
  ASSUME TypeOK, Shapes, Numbered, OneCopy, Created, Traced, Whereabouts, [Next]_vars
  PROVE  Whereabouts'
<1>1. \A a \in Uploads : assetPath'[a] # None => Located(assetPath[a], active[a], a)'
  BY RecordsLocated DEF Located, Stays, Gone, TakenFrom, OtherMoveTo
<1>2. upload'.step = "register" => Stays(upload.path, uploaded)'
  BY UploadLocated DEF Stays, Gone, TakenFrom
<1>3. \A p \in Plans : stage'[p] # "absent" => \A i \in DOMAIN ops'[p] :
        /\ Located(ops[p][i].source, snaps[p][i].version, snaps[p][i].asset)'
        /\ ops'[p][i].type = "move_rename" /\ Ran(p, i)'
             => Stays(ops[p][i].target, took[p][i])'
        /\ ops'[p][i].type = "trash" /\ Ran(p, i)' =>
             \/ Gone(snaps[p][i].version)'
             \/ TakenFrom(ops[p][i].source, snaps[p][i].version)'
             \/ OtherMoveTo(ops[p][i].source, snaps[p][i].version, snaps[p][i].asset)'
  BY PlansLocated DEF Located, Stays, Gone, TakenFrom, OtherMoveTo
<1> QED
  BY <1>1, <1>2, <1>3 DEF Whereabouts, IsMove

LEMMA ApartStep ==
  ASSUME TypeOK, Shapes, Apart, [Next]_vars
  PROVE  Apart'
<1> SUFFICES ASSUME NEW p \in Plans, NEW i \in DOMAIN ops'[p],
                    ops'[p][i].type = "move_rename", Checked(p, i)'
             PROVE  ops'[p][i].target # ops'[p][i].source
  BY DEF Apart, IsMove
<1>1. stage[p] # "absent"
  BY Progress
<1>2. ops'[p] = ops[p] /\ IsMove(p, i)
  BY <1>1, Progress DEF IsMove
<1>3. ASSUME Matches(p, i) PROVE ops[p][i].target # ops[p][i].source
  BY <1>2, <1>3 DEF Matches, Same
<1> QED
  BY <1>1, <1>2, <1>3, Progress DEF Apart
-----------------------------------------------------------------------------
(***************************************************************************)
(* One handler at a time: the directory between and inside the handlers.   *)
(***************************************************************************)
\* As long as none overlapped, whoever begins finds nobody at work.
LEMMA NobodyAtWork ==
  ASSUME Alone, ~overlap
  PROVE  /\ InFlight \in Nat
         /\ InFlight = 0 => upload = Idle /\ \A p \in Plans : stage[p] \notin Running
<1> DEFINE S == {p \in Plans : stage[p] \in Running}
<1>1. CASE S = {}
  <2>1. Cardinality(S) = 0
    BY <1>1, FS_EmptySet
  <2> QED
    BY <1>1, <2>1 DEF InFlight
<1>2. CASE S # {}
  <2>1. PICK p \in Plans : S = {p}
    BY <1>2 DEF Alone
  <2>2. Cardinality(S) = 1
    BY <2>1, FS_Singleton
  <2> HIDE DEF S
  <2>3. InFlight = 1 + (IF upload = Idle THEN 0 ELSE 1)
    BY <2>2 DEF InFlight, S
  <2> QED
    BY <2>3
<1> QED
  BY <1>1, <1>2

LEMMA BeginFacts ==
  ASSUME TypeOK, Alone, Begin, ~overlap'
  PROVE  ~overlap /\ upload = Idle /\ \A p \in Plans : stage[p] \notin Running
<1>1. ~overlap /\ ~(InFlight > 0)
  BY DEF Begin, TypeOK
<1> QED
  BY <1>1, NobodyAtWork

\* That handlers overlapped, that a plan failed, and that one verified, is never undone.
LEMMA HistoryStays ==
  ASSUME TypeOK, Shapes, [Next]_vars
  PROVE  /\ overlap => overlap'
         /\ \A p \in Plans : stage[p] \in {"verified", "failed", "mismatch"} => stage'[p] = stage[p]
<1>1. overlap => overlap'
  <2>1. UploadCheck => (overlap => overlap')
    BY DEF UploadCheck, Begin
  <2>2. UNCHANGED vars => overlap' = overlap
    BY DEF vars
  <2>3. ASSUME NEW p \in Plans, CreatePlan(p) \/ Start(p) \/ Execute(p) \/ Verify(p) \/ Apply(p)
        PROVE  overlap => overlap'
    BY <2>3 DEF CreatePlan, Start, Execute, Verify, Apply, Begin
  <2> QED
    BY <2>1, <2>2, <2>3, UploadSteps, NextKinds
<1>2. ASSUME NEW p \in Plans, stage[p] \in {"verified", "failed", "mismatch"}
      PROVE  stage'[p] = stage[p]
  <2>1. ASSUME NEW q \in Plans,
               CreatePlan(q) \/ Start(q) \/ Execute(q) \/ Verify(q) \/ Apply(q)
        PROVE  q # p
    BY <1>2, <2>1 DEF CreatePlan, Start, Execute, Verify, Apply
  <2>2. UNCHANGED plans => stage'[p] = stage[p]
    BY DEF plans
  <2>3. ASSUME NEW q \in Plans,
               CreatePlan(q) \/ Start(q) \/ Execute(q) \/ Verify(q) \/ Apply(q)
        PROVE  \A r \in Plans \ {q} : stage'[r] = stage[r]
    <3>1. CreatePlan(q) \/ Start(q) => \A r \in Plans \ {q} : stage'[r] = stage[r]
      BY CreateFacts, StartFacts
    <3>2. Execute(q) => \A r \in Plans \ {q} : stage'[r] = stage[r]
      BY ExecuteFacts
    <3>3. Verify(q) \/ Apply(q) => \A r \in Plans \ {q} : stage'[r] = stage[r]
      BY VerifyFacts, ApplyFacts
    <3> QED
      BY <2>3, <3>1, <3>2, <3>3
  <2> QED
    BY <2>1, <2>2, <2>3, NextKinds
<1> QED
  BY <1>1, <1>2

LEMMA AloneStep ==
  ASSUME TypeOK, Shapes, Alone, [Next]_vars
  PROVE  Alone'
<1> SUFFICES ASSUME ~overlap', NEW p \in Plans, stage'[p] \in Running
             PROVE  upload' = Idle /\ \A q \in Plans \ {p} : stage'[q] \notin Running
  BY DEF Alone, Idle
<1>1. ~overlap
  BY HistoryStays
<1>2. CASE UNCHANGED plans
  <2>1. stage' = stage
    BY <1>2 DEF plans
  <2>2. upload = Idle /\ \A q \in Plans \ {p} : stage'[q] \notin Running
    BY <1>1, <2>1 DEF Alone
  <2>3. ~UploadCheck
    BY <2>1, BeginFacts DEF UploadCheck
  <2>4. ~UploadProbe /\ ~UploadWrite
    BY <2>2, UploadSteps, UploadFacts
  <2>5. UNCHANGED vars => upload' = upload
    BY DEF vars
  <2>6. UploadRegister => upload' = Idle
    BY UploadSteps
  <2>7. \A q \in Plans : CreatePlan(q) \/ Start(q) \/ Execute(q) \/ Verify(q) \/ Apply(q)
          => upload' = upload
    BY PlansKeepUploads
  <2> QED
    BY <2>2, <2>3, <2>4, <2>5, <2>6, <2>7, NextKinds
<1>3. ASSUME NEW q \in Plans, Start(q)
      PROVE  upload' = Idle /\ \A r \in Plans \ {p} : stage'[r] \notin Running
  <2>1. upload = Idle /\ \A r \in Plans : stage[r] \notin Running
    BY <1>3, BeginFacts DEF Start
  <2> QED
    BY <1>3, <2>1, StartFacts, PlansKeepUploads
<1>4. ASSUME NEW q \in Plans, CreatePlan(q) \/ Execute(q) \/ Verify(q) \/ Apply(q)
      PROVE  upload' = Idle /\ \A r \in Plans \ {p} : stage'[r] \notin Running
  <2>1. \A r \in Plans : stage'[r] \in Running => stage[r] \in Running
    BY <1>4, CreateFacts, ExecuteFacts, VerifyFacts, ApplyFacts DEF Running
  <2>2. upload' = upload
    BY <1>4, PlansKeepUploads
  <2> QED
    BY <1>1, <2>1, <2>2 DEF Alone
<1> QED
  BY <1>2, <1>3, <1>4, NextKinds

\* A path holds no file or one that was uploaded.
LEMMA FilesKnown ==
  ASSUME TypeOK, Numbered
  PROVE  /\ \A x \in Paths : disk[x] \in 0 .. uploaded
         /\ \A a \in Uploads : assetPath[a] # None =>
              assetPath[a] \in Paths /\ active[a] \in 1 .. uploaded
<1>1. /\ disk \in [Paths -> Files] /\ assetPath \in [Uploads -> Paths \cup {None}]
      /\ uploaded \in Nat
  BY UploadFacts DEF TypeOK
<1> QED
  BY <1>1 DEF Files, Uploads, Nothing, Numbered

\* A path that an operation touched was touched for good.
LEMMA TouchedStays ==
  ASSUME TypeOK, Shapes, [Next]_vars, NEW p \in Plans, NEW i \in DOMAIN ops[p], NEW x,
         Touched(p, i, x)
  PROVE  ops'[p] = ops[p] /\ Touched(p, i, x)'
<1>1. stage[p] # "absent" /\ Ran(p, i)
  BY DEF Touched, Ran
<1>2. ops'[p] = ops[p] /\ Ran(p, i)'
  BY <1>1, Progress
<1> QED
  BY <1>1, <1>2 DEF Touched, MoveRan

\* Whether an operation disturbs a record depends on the record and the bytes uploaded.
LEMMA DisturbsStays ==
  ASSUME TypeOK, Shapes, Numbered, Created, [Next]_vars, NEW p \in Plans, stage[p] # "absent",
         NEW i \in DOMAIN ops[p], NEW a \in Uploads, assetPath[a] # None,
         assetPath'[a] = assetPath[a], active'[a] = active[a], Disturbs(p, i, a)
  PROVE  Disturbs(p, i, a)'
<1>1. /\ ops'[p] = ops[p] /\ snaps'[p] = snaps[p]
      /\ snaps[p][i].version \in 1 .. uploaded /\ active[a] \in 1 .. uploaded
  BY OperationFacts, FilesKnown
<1>2. /\ bytes'[snaps[p][i].version] = bytes[snaps[p][i].version]
      /\ bytes'[active[a]] = bytes[active[a]]
  BY <1>1, FilesStay
<1>3. TakesAnother(p, i, a) => TakesAnother(p, i, a)'
  BY <1>1, <1>2 DEF TakesAnother
<1> QED
  BY <1>1, <1>3 DEF Disturbs, IsMove

\* What excuses an asset goes on excusing it where it is.
LEMMA ExcusedStays ==
  ASSUME TypeOK, Shapes, Numbered, Created, [Next]_vars, NEW a \in Uploads, assetPath[a] # None,
         assetPath'[a] = assetPath[a], active'[a] = active[a], Excused(a)
  PROVE  Excused(a)'
<1>1. ASSUME NEW p \in Plans, NEW i \in DOMAIN ops[p], stage[p] \in {"failed", "mismatch"},
             Touched(p, i, assetPath[a])
      PROVE  Excused(a)'
  <2>1. PICK x : x = assetPath[a]
    OBVIOUS
  <2>2. ops'[p] = ops[p] /\ Touched(p, i, x)'
    BY <1>1, <2>1, TouchedStays
  <2>3. stage'[p] = stage[p]
    BY <1>1, HistoryStays
  <2>4. Touched(p, i, assetPath[a])'
    BY <2>1, <2>2 DEF Touched, MoveRan, Ran
  <2> QED
    BY <1>1, <2>2, <2>3, <2>4 DEF Excused
<1>2. ASSUME NEW p \in Plans, NEW i \in DOMAIN ops[p], stage[p] = "verified", Disturbs(p, i, a)
      PROVE  Excused(a)'
  <2>1. stage'[p] = "verified" /\ ops'[p] = ops[p] /\ Disturbs(p, i, a)'
    BY <1>2, HistoryStays, Progress, DisturbsStays
  <2> QED
    BY <2>1 DEF Excused
<1> QED
  BY <1>1, <1>2 DEF Excused

\* An asset agrees as long as neither its record nor its file changes.
LEMMA AgreedStays ==
  ASSUME TypeOK, Shapes, Numbered, Created, [Next]_vars, NEW a \in Uploads, assetPath[a] # None,
         assetPath'[a] = assetPath[a], active'[a] = active[a],
         disk'[assetPath[a]] = disk[assetPath[a]], Agreed(a)
  PROVE  Agreed(a)'
<1>1. CASE Excused(a)
  BY <1>1, ExcusedStays DEF Agreed
<1>2. CASE Same(disk[assetPath[a]], active[a])
  <2>1. disk[assetPath[a]] \in 0 .. uploaded /\ active[a] \in 1 .. uploaded
    BY FilesKnown
  <2>2. PICK u, v : u = disk[assetPath[a]] /\ v = active[a]
    OBVIOUS
  <2>3. Same(u, v)'
    BY <1>2, <2>1, <2>2, FilesStay
  <2> QED
    BY <2>2, <2>3 DEF Agreed, Same
<1> QED
  BY <1>1, <1>2 DEF Agreed

LEMMA AllAgreedStays ==
  ASSUME TypeOK, Shapes, Numbered, Created, [Next]_vars, UNCHANGED <<disk, assetPath, active>>,
         AllAgreed
  PROVE  AllAgreed'
BY AgreedStays DEF AllAgreed

\* An execution step leaves a bystander's file, or the plan is to blame or will not verify.
LEMMA BystandersStay ==
  ASSUME TypeOK, Shapes, Numbered, Created, [Next]_vars,
         NEW p \in Plans, Execute(p), stage'[p] # "failed", Bystanders(p)
  PROVE  Bystanders(p)'
<1>1. PICK k : k = at[p]
  OBVIOUS
<1>2. /\ stage[p] = "execute" /\ stage[p] # "absent" /\ k \in DOMAIN ops[p] /\ Ran(p, k)'
      /\ IsMove(p, k) =>
           /\ disk[ops[p][k].source] # Nothing
           /\ disk' = [disk EXCEPT ![ops[p][k].source] = Nothing,
                                   ![ops[p][k].target] = disk[ops[p][k].source]]
      /\ ops[p][k].type = "trash" => disk' = [disk EXCEPT ![ops[p][k].source] = Nothing]
      /\ ops[p][k].type = "upload" => disk' = disk
  BY <1>1, Carried
<1>3. /\ \A i \in DOMAIN ops[p] :
           /\ ops[p][i].source \in Paths /\ (IsMove(p, i) => ops[p][i].target \in Paths)
           /\ snaps[p][i].version \in 1 .. uploaded
      /\ ops[p][k].type \in {"move_rename", "trash", "upload"}
  BY <1>2, OperationFacts, PlanFacts
<1>4. /\ ops' = ops /\ snaps' = snaps /\ assetPath' = assetPath /\ active' = active
      /\ disk \in [Paths -> Files]
      /\ bytes' = bytes
  BY DEF Execute, assets, TypeOK
<1>5. \A i : \A a : (Disturbs(p, i, a))' <=> Disturbs(p, i, a)
  BY <1>4 DEF Disturbs, TakesAnother, IsMove
<1> SUFFICES ASSUME NEW a \in Uploads, assetPath[a] # None, ~Moves(p, a),
                    \A i \in DOMAIN ops[p] : ~Disturbs(p, i, a), Agreed(a) \/ Strayed(p, a)
             PROVE  Agreed(a)' \/ Strayed(p, a)'
  BY <1>4, <1>5 DEF Bystanders, Moves, IsMove
<1> DEFINE P == assetPath[a]
<1>6. P \in Paths
  BY FilesKnown
<1>7. /\ \A i \in DOMAIN ops[p] : IsMove(p, i) =>
           /\ snaps[p][i].asset # a /\ ops[p][i].target # P
           /\ ops[p][i].source = P => ~TakesAnother(p, i, a)
      /\ ops[p][k].type = "trash" => ops[p][k].source # P
  BY <1>2 DEF Moves, Disturbs
<1>8. CASE Agreed(a) /\ disk'[P] = disk[P]
  BY <1>4, <1>8, AgreedStays
<1>9. CASE Agreed(a) /\ disk'[P] # disk[P] /\ ~Excused(a)
  <2>1. IsMove(p, k) /\ ops[p][k].source = P
    BY <1>2, <1>3, <1>4, <1>6, <1>7, <1>9 DEF IsMove
  <2>2. disk'[P] = Nothing /\ disk'[ops[p][k].target] = disk[P] /\ ops[p][k].target # P
    BY <1>2, <1>3, <1>4, <1>6, <1>7, <2>1
  <2>3. bytes[disk[P]] = bytes[active[a]] /\ bytes[active[a]] # bytes[snaps[p][k].version]
    BY <1>2, <1>7, <1>9, <2>1 DEF Agreed, Same, TakesAnother
  <2>4. MoveRan(p, k)'
    BY <1>2, <1>4, <2>1 DEF MoveRan, IsMove
  <2>5. ~Same(disk[ops[p][k].target], snaps[p][k].version)'
    BY <1>4, <2>2, <2>3 DEF Same
  <2> QED
    BY <1>2, <1>4, <2>1, <2>2, <2>4, <2>5 DEF Strayed
<1>10. CASE Excused(a)
  BY <1>4, <1>10, ExcusedStays DEF Agreed
<1>11. CASE Strayed(p, a)
  <2>1. PICK j \in DOMAIN ops[p] :
          /\ MoveRan(p, j) /\ ops[p][j].source = P /\ disk[P] = Nothing
          /\ ~Same(disk[ops[p][j].target], snaps[p][j].version)
    BY <1>11 DEF Strayed
  <2>2. MoveRan(p, j)' /\ IsMove(p, j) /\ ops[p][j].target \in Paths
    BY <1>3, <2>1, MoveStays DEF MoveRan, IsMove
  <2>3. IsMove(p, k) => ops[p][k].source # P /\ ops[p][k].target # ops[p][j].target
    BY <1>2, <1>7, <2>1, <2>2 DEF TakesAnother, IsMove
  <2>4. /\ disk'[P] = Nothing
        /\ disk'[ops[p][j].target] \in {disk[ops[p][j].target], Nothing}
    BY <1>2, <1>3, <1>4, <1>6, <1>7, <2>1, <2>2, <2>3 DEF IsMove
  <2>5. ~Same(disk[ops[p][j].target], snaps[p][j].version)'
    BY <1>4, <2>1, <2>4 DEF Same
  <2> QED
    BY <1>4, <2>1, <2>2, <2>4, <2>5 DEF Strayed
<1> QED
  BY <1>8, <1>9, <1>10, <1>11

\* Nor does a step that moves no file and no bystander's record change what a plan may rely on.
LEMMA BystandersRemain ==
  ASSUME TypeOK, Shapes, Numbered, Created, [Next]_vars, UNCHANGED <<disk, active>>,
         NEW q \in Plans, stage[q] # "absent",
         \A a \in Uploads : ~Moves(q, a) => assetPath'[a] = assetPath[a], Bystanders(q)
  PROVE  Bystanders(q)'
<1>1. ops'[q] = ops[q] /\ snaps'[q] = snaps[q]
  BY Progress
<1> SUFFICES ASSUME NEW a \in Uploads, assetPath'[a] # None, ~Moves(q, a)
             PROVE  \/ Agreed(a)' \/ Strayed(q, a)'
                    \/ \E i \in DOMAIN ops[q] : Disturbs(q, i, a)'
  BY <1>1 DEF Bystanders, Moves, IsMove
<1>2. assetPath[a] # None /\ assetPath'[a] = assetPath[a] /\ active'[a] = active[a]
  OBVIOUS
<1>3. CASE Agreed(a)
  BY <1>2, <1>3, AgreedStays
<1>4. ASSUME NEW i \in DOMAIN ops[q], Disturbs(q, i, a) PROVE Disturbs(q, i, a)'
  BY <1>2, <1>4, DisturbsStays
<1>5. ASSUME NEW j \in DOMAIN ops[q], MoveRan(q, j), ops[q][j].source = assetPath[a],
             disk[ops[q][j].source] = Nothing,
             ~Same(disk[ops[q][j].target], snaps[q][j].version)
      PROVE  Strayed(q, a)'
  <2>1. MoveRan(q, j)' /\ IsMove(q, j)
    BY <1>5, MoveStays DEF MoveRan, IsMove
  <2>2. ops[q][j].target \in Paths /\ snaps[q][j].version \in 1 .. uploaded
    BY <2>1, OperationFacts
  <2>3. PICK u, v : u = disk[ops[q][j].target] /\ v = snaps[q][j].version
    OBVIOUS
  <2>4. ~Same(u, v)'
    BY <1>5, <2>2, <2>3, FilesKnown, FilesStay
  <2>5. ~Same(disk[ops[q][j].target], snaps[q][j].version)'
    BY <1>1, <2>3, <2>4 DEF Same
  <2> QED
    BY <1>1, <1>2, <1>5, <2>1, <2>5 DEF Strayed
<1> QED
  BY <1>2, <1>3, <1>4, <1>5 DEF Bystanders, Strayed

\* A path that an execution step changes is one it touches.
LEMMA FramedStays ==
  ASSUME TypeOK, Shapes, Numbered, Created, [Next]_vars, UNCHANGED <<assetPath, active>>,
         NEW p \in Plans, stage[p] # "absent", Framed(p),
         disk' = disk \/ (Execute(p) /\ stage'[p] # "failed")
  PROVE  Framed(p)'
<1>1. ops'[p] = ops[p]
  BY Progress
<1> SUFFICES ASSUME NEW a \in Uploads, assetPath[a] # None, NEW x, x = assetPath[a]
             PROVE  Agreed(a)' \/ \E i \in DOMAIN ops[p] : Touched(p, i, x)'
  BY <1>1 DEF Framed, Touched, MoveRan, Ran
<1>2. ASSUME NEW i \in DOMAIN ops[p], Touched(p, i, x) PROVE Touched(p, i, x)'
  BY <1>2, TouchedStays
<1>3. CASE Agreed(a) /\ disk'[x] = disk[x]
  BY <1>3, AgreedStays
<1>4. CASE disk'[x] # disk[x]
  <2>1. Execute(p) /\ stage'[p] # "failed"
    BY <1>4
  <2>2. PICK k : k = at[p]
    OBVIOUS
  <2>3. /\ stage[p] = "execute" /\ k \in DOMAIN ops[p] /\ Ran(p, k)'
        /\ IsMove(p, k) => disk' = [disk EXCEPT ![ops[p][k].source] = Nothing,
                                          ![ops[p][k].target] = disk[ops[p][k].source]]
        /\ ops[p][k].type = "trash" => disk' = [disk EXCEPT ![ops[p][k].source] = Nothing]
        /\ ops[p][k].type = "upload" => disk' = disk
    BY <2>1, <2>2, Carried
  <2>4. ops[p][k].type \in {"move_rename", "trash", "upload"}
    BY <2>3, PlanFacts
  <2>5. \/ x = ops[p][k].source /\ ops[p][k].type # "upload"
        \/ x = ops[p][k].target /\ ops[p][k].type = "move_rename"
    <3>1. disk \in [Paths -> Files] /\ x \in Paths /\ ops[p][k].source \in Paths
      BY <2>3, FilesKnown, PlanFacts DEF TypeOK
    <3> QED
      BY <1>4, <2>3, <2>4, <3>1 DEF IsMove
  <2>6. Touched(p, k, x)'
    BY <1>1, <2>3, <2>5 DEF Touched, MoveRan
  <2> QED
    BY <2>3, <2>6
<1> QED
  BY <1>2, <1>3, <1>4 DEF Framed

\* A plan that ends before it renames its assets is to blame for the paths it touched.
LEMMA FramedEnds ==
  ASSUME TypeOK, Shapes, Numbered, Created, [Next]_vars, UNCHANGED <<disk, assetPath, active>>,
         NEW p \in Plans, stage[p] # "absent", Framed(p), stage'[p] \in {"failed", "mismatch"}
  PROVE  AllAgreed'
<1>1. Framed(p)'
  BY FramedStays
<1> QED
  BY <1>1 DEF Framed, AllAgreed, Agreed, Excused

\* A plan that is not moved on goes on from where it was.
LEMMA AtWorkRemains ==
  ASSUME TypeOK, Shapes, Numbered, Created, [Next]_vars, UNCHANGED <<disk, assetPath, active>>,
         NEW q \in Plans, stage[q] # "absent", stage'[q] = stage[q], at'[q] = at[q], AtWork(q)
  PROVE  AtWork(q)'
<1>1. ops'[q] = ops[q] /\ snaps'[q] = snaps[q]
  BY Progress
<1>2. SnapshotsMatch(q)' /\ Bystanders(q)'
  BY <1>1, BystandersRemain DEF AtWork, SnapshotsMatch
<1>3. stage'[q] \in {"execute", "verify"} => Framed(q)'
  BY FramedStays DEF AtWork
<1>4. ASSUME NEW i \in DOMAIN ops[q], Matches(q, i) PROVE Matches(q, i)'
  <2>1. /\ snaps[q][i].version \in 1 .. uploaded /\ ops[q][i].source \in Paths
        /\ IsMove(q, i) => ops[q][i].target \in Paths
    BY OperationFacts
  <2>2. ASSUME NEW x \in Paths, Same(disk[x], snaps[q][i].version)
        PROVE  bytes'[disk[x]] = bytes'[snaps[q][i].version]
    <3>1. PICK u, v : u = disk[x] /\ v = snaps[q][i].version
      OBVIOUS
    <3>2. u \in 0 .. uploaded
      BY <3>1, FilesKnown
    <3>3. Same(u, v)'
      BY <2>1, <2>2, <3>1, <3>2, FilesStay
    <3> QED
      BY <3>1, <3>3 DEF Same
  <2>3. \A x \in Paths : Same(disk[x], snaps[q][i].version) => Same(disk[x], snaps[q][i].version)'
    BY <1>1, <2>2 DEF Same
  <2> QED
    BY <1>1, <1>4, <2>1, <2>3 DEF Matches, IsMove
<1>5. \A i \in DOMAIN ops[q] :
        /\ Checked(q, i)' => Matches(q, i)'
        /\ stage'[q] = "apply" /\ i < at'[q] /\ IsMove(q, i) => Renamed(q, snaps[q][i].asset)'
  BY <1>1, <1>4 DEF AtWork, Checked, Renamed, IsMove
<1> QED
  BY <1>1, <1>2, <1>3, <1>5 DEF AtWork, IsMove, Renamed

\* Nobody is at work while an upload is.
LEMMA UploadsSequential ==
  ASSUME TypeOK, Shapes, Numbered, Created, Alone, Sequential, ~overlap, ~overlap', [Next]_vars,
         UploadCheck \/ UploadProbe \/ UploadWrite \/ UploadRegister
  PROVE  Sequential'
<1>1. UNCHANGED plans
  BY BeginFacts, UploadSteps DEF UploadCheck
<1>2. \A p \in Plans : stage[p] \notin Running /\ stage'[p] \notin Running
  <2>1. CASE UploadCheck
    BY <1>1, <2>1, BeginFacts DEF UploadCheck, plans
  <2>2. CASE upload # Idle
    BY <1>1, <2>2 DEF Alone, plans
  <2> QED
    BY <2>1, <2>2, UploadSteps, UploadFacts
<1>3. AllAgreed
  BY <1>2 DEF Sequential
<1>4. CASE UploadCheck
  <2>1. PICK path \in Paths :
          /\ upload' = [step |-> "probe", path |-> path] /\ AssetsAt(path) = {}
          /\ UNCHANGED <<files, assets, plans>>
    BY <1>4, UploadSteps
  <2>2. AllAgreed'
    BY <1>3, <2>1, AllAgreedStays DEF files, assets
  <2> QED
    BY <1>2, <2>1, <2>2 DEF Sequential, AssetsAt, assets
<1>5. CASE UploadProbe
  <2>1. /\ upload.step = "probe" /\ UNCHANGED <<files, assets, plans, overlap>>
        /\ upload' \in {Idle, [step |-> "write", path |-> upload.path]}
    BY <1>5, UploadSteps
  <2>2. AllAgreed'
    BY <1>3, <2>1, AllAgreedStays DEF files, assets
  <2>3. upload # Idle
    BY <2>1, UploadFacts
  <2> QED
    BY <1>2, <2>1, <2>2, <2>3, UploadFacts DEF Sequential, AssetsAt, assets
<1>6. CASE UploadWrite
  <2>1. /\ upload.step = "write" /\ uploaded' = uploaded + 1
        /\ disk' = [disk EXCEPT ![upload.path] = uploaded + 1]
        /\ upload' = [step |-> "register", path |-> upload.path]
        /\ UNCHANGED <<assets, plans, overlap>>
    BY <1>6, UploadSteps
  <2>2. upload # Idle /\ upload.path \in Paths /\ AssetsAt(upload.path) = {}
    BY <2>1, UploadFacts DEF Sequential
  <2>3. disk \in [Paths -> Files] /\ assetPath' = assetPath /\ active' = active
    BY <2>1 DEF TypeOK, assets
  <2>4. AllAgreed'
    <3> SUFFICES ASSUME NEW a \in Uploads, assetPath[a] # None PROVE Agreed(a)'
      BY <2>3 DEF AllAgreed
    <3>1. assetPath[a] \in Paths \ {upload.path}
      BY <2>2, FilesKnown DEF AssetsAt
    <3>2. disk'[assetPath[a]] = disk[assetPath[a]]
      BY <2>1, <2>3, <3>1
    <3> QED
      BY <1>3, <2>3, <3>2, AgreedStays DEF AllAgreed
  <2>5. AssetsAt(upload.path)' = {}
    BY <2>1, <2>2, <2>3 DEF AssetsAt
  <2>6. disk'[upload'.path] = uploaded'
    BY <2>1, <2>2, <2>3
  <2> QED
    BY <1>2, <2>1, <2>2, <2>4, <2>5, <2>6 DEF Sequential
<1>7. CASE UploadRegister
  <2>1. upload.step = "register" /\ upload' = Idle /\ UNCHANGED <<files, plans, overlap>>
    BY <1>7, UploadSteps
  <2>2. upload # Idle /\ AssetsAt(upload.path) = {} /\ disk[upload.path] = uploaded
    BY <2>1, UploadFacts DEF Sequential
  <2>3. /\ uploaded \in Uploads /\ uploaded # 0
        /\ assetPath' = [assetPath EXCEPT ![uploaded] = upload.path]
        /\ active' = [active EXCEPT ![uploaded] = uploaded]
    BY <1>7, <2>1, <2>2, RegisterFacts DEF Numbered
  <2>4. /\ disk' = disk /\ assetPath \in [Uploads -> Paths \cup {None}]
        /\ active \in [Uploads -> Files]
    BY <2>1 DEF files, TypeOK
  <2>5. ASSUME NEW a \in Uploads, assetPath'[a] # None PROVE Agreed(a)'
    <3>1. CASE a = uploaded
      <4>1. disk'[assetPath'[a]] = uploaded /\ active'[a] = uploaded
        BY <2>2, <2>3, <2>4, <3>1
      <4> QED
        BY <2>3, <4>1 DEF Agreed, Same, Nothing
    <3>2. CASE a # uploaded
      <4>1. assetPath'[a] = assetPath[a] /\ active'[a] = active[a]
        BY <2>3, <2>4, <3>2
      <4> QED
        BY <1>3, <2>4, <2>5, <4>1, AgreedStays DEF AllAgreed
    <3> QED
      BY <3>1, <3>2
  <2>6. upload'.step # "register"
    BY <2>1, UploadFacts
  <2> QED
    BY <1>2, <2>1, <2>5, <2>6 DEF Sequential, AllAgreed
<1> QED
  BY <1>4, <1>5, <1>6, <1>7

\* A plan comes into being, or nothing happens.
LEMMA CreateSequential ==
  ASSUME TypeOK, Shapes, Numbered, Created, Sequential, [Next]_vars,
         UNCHANGED vars \/ \E p \in Plans : CreatePlan(p)
  PROVE  Sequential'
<1>1. UNCHANGED <<disk, uploaded, assetPath, active, upload>>
  BY DEF vars, CreatePlan, files, assets
<1>2. ASSUME NEW q \in Plans, stage'[q] \in Running \/ stage[q] \in Running
      PROVE  stage'[q] = stage[q] /\ at'[q] = at[q] /\ stage[q] # "absent"
  <2>1. CASE UNCHANGED vars
    BY <1>2, <2>1 DEF vars, plans, Running
  <2>2. ASSUME NEW p \in Plans, CreatePlan(p)
        PROVE  stage'[q] = stage[q] /\ at'[q] = at[q] /\ stage[q] # "absent"
    BY <1>2, <2>2, CreateFacts DEF Running
  <2> QED
    BY <2>1, <2>2
<1>3. ASSUME NEW q \in Plans, stage'[q] \in Running PROVE AtWork(q)'
  <2>1. AtWork(q) /\ stage'[q] = stage[q] /\ at'[q] = at[q] /\ stage[q] # "absent"
    BY <1>2, <1>3 DEF Sequential
  <2> QED
    BY <1>1, <2>1, AtWorkRemains
<1>4. (\A p \in Plans : stage'[p] \notin Running) => AllAgreed'
  BY <1>1, <1>2, AllAgreedStays DEF Sequential
<1> QED
  BY <1>1, <1>3, <1>4 DEF Sequential, AssetsAt

\* What remains of Sequential while one plan is at work.
LEMMA OneAtWork ==
  ASSUME upload' = Idle, NEW p \in Plans, \A q \in Plans \ {p} : stage'[q] \notin Running,
         stage'[p] \in Running => AtWork(p)', stage'[p] \notin Running => AllAgreed'
  PROVE  Sequential'
<1>1. upload'.step # "register"
  BY DEF Idle
<1>2. (upload # Idle)' = FALSE
  BY DEF Idle
<1> QED
  BY <1>1, <1>2 DEF Sequential

LEMMA StartSequential ==
  ASSUME TypeOK, Shapes, Numbered, Created, Alone, Sequential, ~overlap', [Next]_vars,
         NEW p \in Plans, Start(p)
  PROVE  Sequential'
<1>1. upload = Idle /\ \A q \in Plans : stage[q] \notin Running
  BY BeginFacts DEF Start
<1>2. UNCHANGED <<disk, assetPath, active, upload, ops, snaps>> /\ SnapshotsMatch(p)
  BY DEF Start, files, assets
<1>3. stage'[p] = "execute" /\ \A q \in Plans \ {p} : stage'[q] = stage[q]
  BY StartFacts
<1>4. AllAgreed'
  BY <1>1, <1>2, AllAgreedStays DEF Sequential
<1>5. Bystanders(p)' /\ Framed(p)'
  BY <1>4 DEF AllAgreed, Bystanders, Framed
<1>6. AtWork(p)'
  BY <1>2, <1>3, <1>5 DEF AtWork, SnapshotsMatch, Checked
<1> QED
  BY <1>1, <1>2, <1>3, <1>6, OneAtWork DEF Running

LEMMA ExecuteSequential ==
  ASSUME TypeOK, Shapes, Numbered, Created, Alone, Sequential, ~overlap, [Next]_vars,
         NEW p \in Plans, Execute(p)
  PROVE  Sequential'
<1>1. /\ stage[p] = "execute" /\ upload = Idle /\ \A q \in Plans \ {p} : stage[q] \notin Running
      /\ AtWork(p)
  BY DEF Execute, Alone, Sequential, Running
<1>2. UNCHANGED <<assetPath, active, upload, ops, snaps>>
  BY DEF Execute, assets
<1>3. /\ \A q \in Plans \ {p} : stage'[q] = stage[q]
      /\ \/ stage'[p] = "execute"
         \/ stage'[p] = "verify" /\ at'[p] = 1
         \/ stage'[p] = "failed" /\ disk' = disk
  BY ExecuteFacts
<1>4. CASE stage'[p] = "failed"
  <2>1. AllAgreed'
    BY <1>1, <1>2, <1>3, <1>4, FramedEnds DEF AtWork
  <2> QED
    BY <1>1, <1>2, <1>3, <1>4, <2>1, OneAtWork DEF Running
<1>5. CASE stage'[p] # "failed"
  <2>1. Bystanders(p)' /\ Framed(p)' /\ SnapshotsMatch(p)'
    BY <1>1, <1>2, <1>5, BystandersStay, FramedStays DEF AtWork, SnapshotsMatch
  <2>2. \A i \in DOMAIN ops'[p] : ~Checked(p, i)' /\ stage'[p] # "apply"
    <3>1. DOMAIN ops[p] = 1 .. Len(ops[p]) /\ Len(ops[p]) \in Nat
      BY <1>1, PlanFacts
    <3> QED
      BY <1>2, <1>3, <1>5, <3>1 DEF Checked
  <2>3. AtWork(p)'
    BY <2>1, <2>2 DEF AtWork
  <2> QED
    BY <1>1, <1>2, <1>3, <1>5, <2>3, OneAtWork DEF Running
<1> QED
  BY <1>4, <1>5

LEMMA VerifySequential ==
  ASSUME TypeOK, Shapes, Numbered, Created, Alone, Sequential, ~overlap, [Next]_vars,
         NEW p \in Plans, Verify(p)
  PROVE  Sequential'
<1>1. /\ stage[p] = "verify" /\ upload = Idle /\ \A q \in Plans \ {p} : stage[q] \notin Running
      /\ AtWork(p)
  BY DEF Verify, Alone, Sequential, Running
<1>2. UNCHANGED <<files, disk, assetPath, active, upload, ops, snaps>>
  BY DEF Verify, files, assets
<1>3. /\ \A q \in Plans \ {p} : stage'[q] = stage[q]
      /\ \/ stage'[p] = "verify"
         \/ stage'[p] = "apply" /\ at'[p] = 1
         \/ stage'[p] = "mismatch"
  BY VerifyFacts
<1>4. CASE stage'[p] = "mismatch"
  <2>1. AllAgreed'
    BY <1>1, <1>2, <1>4, FramedEnds DEF AtWork
  <2> QED
    BY <1>1, <1>2, <1>3, <1>4, <2>1, OneAtWork DEF Running
<1>5. CASE stage'[p] # "mismatch"
  <2>1. \A i \in DOMAIN ops[p] : Checked(p, i)' => Matches(p, i)'
    <3>1. \A i \in DOMAIN ops[p] : Checked(p, i)' => Matches(p, i)
      BY <1>1, Progress DEF AtWork
    <3> QED
      BY <1>2, <3>1 DEF Matches, IsMove, Same, files
  <2>2. Bystanders(p)' /\ Framed(p)' /\ SnapshotsMatch(p)'
    BY <1>1, <1>2, BystandersRemain, FramedStays DEF AtWork, SnapshotsMatch
  <2>3. \A i \in DOMAIN ops[p] : ~(stage'[p] = "apply" /\ i < at'[p])
    <3>1. DOMAIN ops[p] = 1 .. Len(ops[p]) /\ Len(ops[p]) \in Nat
      BY <1>1, PlanFacts
    <3> QED
      BY <1>3, <3>1
  <2>4. AtWork(p)'
    BY <1>2, <2>1, <2>2, <2>3 DEF AtWork
  <2> QED
    BY <1>1, <1>2, <1>3, <1>5, <2>4, OneAtWork DEF Running
<1> QED
  BY <1>4, <1>5

LEMMA ApplySequential ==
  ASSUME TypeOK, Shapes, Numbered, Created, Alone, Sequential, ~overlap, [Next]_vars,
         NEW p \in Plans, Apply(p)
  PROVE  Sequential'
<1>1. /\ stage[p] = "apply" /\ stage[p] # "absent" /\ upload = Idle
      /\ \A q \in Plans \ {p} : stage[q] \notin Running
      /\ AtWork(p)
  BY DEF Apply, Alone, Sequential, Running
<1>2. UNCHANGED <<files, disk, active, upload, ops, snaps>>
  BY DEF Apply, files
<1>3. PICK k : k = at[p]
  OBVIOUS
<1>4. /\ Len(ops[p]) \in Nat \ {0} /\ DOMAIN ops[p] = 1 .. Len(ops[p]) /\ k \in 1 .. Len(ops[p])
      /\ at \in [Plans -> Nat] /\ DOMAIN snaps[p] = DOMAIN ops[p]
  BY <1>1, <1>3, PlanFacts DEF Shapes, TypeOK
<1>5. /\ \A q \in Plans \ {p} : stage'[q] = stage[q]
      /\ \/ k < Len(ops[p]) /\ at'[p] = k + 1 /\ stage'[p] = "apply"
         \/ k = Len(ops[p]) /\ stage'[p] = "verified"
  BY <1>3, ApplyFacts
<1>6. /\ SnapshotsMatch(p) /\ Bystanders(p)
      /\ \A i \in DOMAIN ops[p] : Matches(p, i) /\ snaps[p][i].asset \in Uploads
  BY <1>1, PlanFacts DEF AtWork, Checked
<1>7. /\ IsMove(p, k) =>
           assetPath' = [assetPath EXCEPT ![snaps[p][k].asset] = ops[p][k].target]
      /\ ~IsMove(p, k) => assetPath' = assetPath
      /\ assetPath \in [Uploads -> Paths \cup {None}]
  BY <1>1, <1>3 DEF Apply, Op, Snap, IsMove, TypeOK
<1>8. ASSUME NEW i \in DOMAIN ops[p], IsMove(p, i), i <= k
      PROVE  \E j \in DOMAIN ops[p] :
               /\ IsMove(p, j) /\ snaps[p][j].asset = snaps[p][i].asset
               /\ assetPath'[snaps[p][i].asset] = ops[p][j].target
  <2>1. CASE IsMove(p, k) /\ snaps[p][i].asset = snaps[p][k].asset
    BY <1>4, <1>6, <1>7, <1>8, <2>1
  <2>2. CASE ~(IsMove(p, k) /\ snaps[p][i].asset = snaps[p][k].asset)
    <3>1. i # k
      BY <1>8, <2>2
    <3>2. i < at[p]
      BY <1>3, <1>4, <1>8, <3>1
    <3>3. Renamed(p, snaps[p][i].asset)
      BY <1>1, <1>8, <3>2 DEF AtWork
    <3>4. assetPath'[snaps[p][i].asset] = assetPath[snaps[p][i].asset]
      BY <1>6, <1>7, <1>8, <2>2
    <3> QED
      BY <3>3, <3>4 DEF Renamed
  <2> QED
    BY <2>1, <2>2
<1>9. \A a \in Uploads : ~Moves(p, a) => assetPath'[a] = assetPath[a]
  BY <1>4, <1>7 DEF Moves
<1>10. Bystanders(p)' /\ \A i \in DOMAIN ops[p] : Matches(p, i)'
  <2>1. Bystanders(p)'
    BY <1>1, <1>2, <1>6, <1>9, BystandersRemain
  <2> QED
    BY <1>2, <1>6, <2>1 DEF Matches, IsMove, Same, files
<1>11. CASE stage'[p] = "apply"
  <2>1. \A i \in DOMAIN ops[p] : i < at'[p] => i <= k
    BY <1>4, <1>5, <1>11
  <2>2. SnapshotsMatch(p)'
    BY <1>2, <1>6 DEF SnapshotsMatch
  <2>3. \A i \in DOMAIN ops[p] :
          IsMove(p, i) /\ i < at'[p] => Renamed(p, snaps[p][i].asset)'
    BY <1>2, <1>8, <2>1 DEF Renamed, IsMove
  <2>4. AtWork(p)'
    BY <1>2, <1>10, <1>11, <2>2, <2>3 DEF AtWork, IsMove
  <2> QED
    BY <1>1, <1>2, <1>5, <1>11, <2>4, OneAtWork DEF Running
<1>12. CASE stage'[p] = "verified"
  <2>1. k = Len(ops[p])
    BY <1>5, <1>12
  <2>2. ASSUME NEW a \in Uploads, Moves(p, a) PROVE Agreed(a)'
    <3>1. PICK i \in DOMAIN ops[p] : IsMove(p, i) /\ snaps[p][i].asset = a
      BY <2>2 DEF Moves
    <3>2. PICK j \in DOMAIN ops[p] :
            IsMove(p, j) /\ snaps[p][j].asset = a /\ assetPath'[a] = ops[p][j].target
      <4>1. i <= k
        BY <1>4, <2>1
      <4> QED
        BY <1>8, <3>1, <4>1
    <3>3. active[a] = snaps[p][j].version
      BY <1>4, <1>6, <3>2 DEF SnapshotsMatch
    <3>4. Same(disk[ops[p][j].target], snaps[p][j].version)
      BY <1>6, <3>2 DEF Matches
    <3> QED
      BY <1>2, <3>2, <3>3, <3>4 DEF Agreed, Same, files
  <2>3. ASSUME NEW a \in Uploads, ~Moves(p, a), assetPath'[a] # None PROVE Agreed(a)'
    <3>1. ASSUME NEW i \in DOMAIN ops[p], Disturbs(p, i, a)' PROVE Excused(a)'
      BY <1>2, <1>12, <3>1 DEF Excused
    <3>2. ~Strayed(p, a)'
      <4>1. \A j \in DOMAIN ops[p] : MoveRan(p, j)' => IsMove(p, j)'
        BY DEF MoveRan, IsMove
      <4> QED
        BY <1>2, <1>10, <4>1 DEF Strayed, Matches
    <3>3. ~Moves(p, a)'
      BY <1>2, <2>3 DEF Moves, IsMove
    <3> QED
      BY <1>2, <1>10, <2>3, <3>1, <3>2, <3>3 DEF Bystanders, Agreed
  <2>4. AllAgreed'
    BY <2>2, <2>3 DEF AllAgreed
  <2> QED
    BY <1>1, <1>2, <1>5, <1>12, <2>4, OneAtWork DEF Running
<1> QED
  BY <1>5, <1>11, <1>12

LEMMA SequentialStep ==
  ASSUME TypeOK, Shapes, Numbered, Created, Alone, ~overlap => Sequential, [Next]_vars
  PROVE  (~overlap => Sequential)'
<1> SUFFICES ASSUME ~overlap' PROVE Sequential'
  OBVIOUS
<1>1. ~overlap /\ Sequential
  BY HistoryStays
<1> QED
  BY <1>1, NextKinds, UploadsSequential, CreateSequential, StartSequential, ExecuteSequential,
     VerifySequential, ApplySequential
-----------------------------------------------------------------------------
(***************************************************************************)
(* The theorems.                                                           *)
(***************************************************************************)
LEMMA InitInductive == Init => Inductive
<1> SUFFICES ASSUME Init PROVE Inductive
  OBVIOUS
<1>1. TypeOK /\ Shapes /\ Numbered /\ OneCopy /\ Created
  BY InitTyped
<1>2. /\ \A p \in Plans : stage[p] = "absent" /\ ops[p] = <<>>
      /\ \A a \in Uploads : assetPath[a] = None
      /\ \A x \in Paths : disk[x] = Nothing
      /\ upload = Idle /\ Idle.step = "idle"
  BY DEF Init, Idle
<1>3. Traced /\ Left /\ Apart /\ Duels /\ Whereabouts
  BY <1>2 DEF Traced, Left, Apart, Duels, Whereabouts, MoveRan, Ran, Checked
<1>4. Alone /\ Sequential
  BY <1>2 DEF Alone, Sequential, AllAgreed, Running
<1> QED
  BY <1>1, <1>3, <1>4 DEF Inductive

LEMMA NextKeeps == Inductive /\ [Next]_vars => Inductive'
BY TypeStep, NumberStep, OneCopyStep, CreatedStep, TracedStep, LeftStep, ApartStep, DuelsStep,
   WhereaboutsStep, AloneStep, SequentialStep DEF Inductive

\* What the directory, the records and the plans are in every state, whatever handlers
\* (upload, create_plan, the threads of execute_plan) are at work at the same time and
\* whatever bytes are uploaded again.
THEOREM InductiveInvariant == Spec => []Inductive
BY InitInductive, NextKeeps, PTL DEF Spec

\* The variables keep their types: no thread of execute_plan is past its plan's operations.
THEOREM TypeCorrect == Spec => []TypeOK
<1>1. Inductive => TypeOK
  BY DEF Inductive
<1> QED
  BY <1>1, InductiveInvariant, PTL

\* Of two operations that move one version away from one path, ControlledDirectoryVerifier
\* lets at most one pass, unless another move, or an upload of the same bytes, brought a
\* file to one of their paths.
THEOREM RacesHaveOneWinner == Spec => []RaceHasOneWinner
<1>1. Inductive => RaceHasOneWinner
  <2> SUFFICES ASSUME Inductive, NEW p \in Plans, NEW q \in Plans,
                      NEW i \in DOMAIN ops[p], NEW j \in DOMAIN ops[q],
                      <<p, i>> # <<q, j>>,
                      Verified(p, i, "move_rename"), Verified(q, j, "move_rename"),
                      snaps[p][i] = snaps[q][j], ops[p][i].source = ops[q][j].source
               PROVE  Disturbed(p, i, q, j)
    BY DEF RaceHasOneWinner, Disturbed
  <2>1. /\ stage[p] # "absent" /\ stage[q] # "absent" /\ IsMove(p, i) /\ IsMove(q, j)
        /\ Checked(p, i) /\ Checked(q, j)
    BY DEF Verified, Checked, IsMove
  <2>2. ops[p][i].target # ops[p][i].source /\ ops[q][j].target # ops[q][j].source
    BY <2>1 DEF Inductive, Apart
  <2>3. Rivals(p, i, q, j)
    BY <2>1, <2>2 DEF Rivals
  <2> QED
    BY <2>1, <2>3 DEF Inductive, Duels, Duel
<1> QED
  BY <1>1, InductiveInvariant, PTL

\* The file a verified trash plan was approved for is gone, unless a move took it from the
\* path the read-back looks at, or brought its record there with another file.
THEOREM TrashedFilesAreGone == Spec => []TrashRemovesItsFile
<1>1. Inductive => TrashRemovesItsFile
  <2> SUFFICES ASSUME Inductive, NEW p \in Plans, NEW i \in DOMAIN ops[p],
                      Verified(p, i, "trash"), ~Gone(snaps[p][i].version)
               PROVE  \/ TakenFrom(ops[p][i].source, snaps[p][i].version)
                      \/ OtherMoveTo(ops[p][i].source, snaps[p][i].version, snaps[p][i].asset)
    BY DEF TrashRemovesItsFile, Gone, TakenFrom, OtherMoveTo
  <2>1. stage[p] # "absent" /\ Ran(p, i) /\ ops[p][i].type = "trash"
    BY DEF Verified, Ran
  <2> QED
    BY <2>1 DEF Inductive, Whereabouts
<1> QED
  BY <1>1, InductiveInvariant, PTL

\* As long as no handler overlapped another, an asset's record and the directory agree, or a
\* plan is to blame: it did not verify, emptied the path, or moved another file to or from it.
THEOREM RecordsDescribeTheDisk == Spec => []RecordsAgreeWithDisk
<1>1. Inductive => RecordsAgreeWithDisk
  <2> SUFFICES ASSUME Inductive, ~overlap, InFlight = 0, NEW a \in Uploads, assetPath[a] # None
               PROVE  Agreed(a)
    BY DEF RecordsAgreeWithDisk, Agreed, Excused, Disturbs, Verified, IsMove
  <2>1. \A p \in Plans : stage[p] \notin Running
    BY NobodyAtWork DEF Inductive
  <2> QED
    BY <2>1 DEF Inductive, Sequential, AllAgreed
<1> QED
  BY <1>1, InductiveInvariant, PTL
=============================================================================
