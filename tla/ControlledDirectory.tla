------------------------- MODULE ControlledDirectory -------------------------
(***************************************************************************)
(* The directory plans act on and the asset records that describe it:      *)
(* ControlledFileExecutor and ControlledDirectoryVerifier over one disk,   *)
(* plan_demo_upload, the snapshots create_plan takes and revalidation      *)
(* compares, and the path updates of a verified plan.                      *)
(*                                                                         *)
(* Uploads run on the event loop, so one at a time; plans run on pool      *)
(* threads beside them.  A plan whose confirmation and approval are in     *)
(* order (PlanExecution) starts here, once.  A file, the version that      *)
(* stands for it and a new asset are numbered by the upload that made      *)
(* them.  The code never sees a file's number: it compares bytes, by       *)
(* fingerprint, and the same bytes may be uploaded again.                  *)
(***************************************************************************)
EXTENDS Naturals, Sequences, FiniteSets, FiniteSetsExt

CONSTANTS
  Paths,        \* file paths under organized/
  Bytes,        \* what a file may contain; equal bytes, equal fingerprints
  MaxUploads,   \* uploads of the run
  Plans,        \* plan ids
  MaxOps,       \* operations of a plan
  MaxInFlight,  \* handlers at work at a time: 1 makes them sequential
  None

ASSUME ControlledDirectoryAssumption ==
  /\ MaxUploads \in Nat
  /\ MaxOps \in Nat \ {0}
  /\ MaxInFlight \in Nat \ {0}
  /\ None \notin Paths

Uploads == 1 .. MaxUploads

Nothing == 0

Files == Uploads \cup {Nothing}

\* A plan's operations; the action that the policy judges is the riskiest of them.
Operations ==
  [type : {"move_rename"}, source : Paths, target : Paths]
  \cup [type : {"trash", "upload"}, source : Paths, target : {None}]

Snapshots == [asset : Uploads, version : Uploads]

SeqsUpTo(S, n) == UNION {[1 .. k -> S] : k \in 1 .. n}

Running == {"execute", "verify", "apply"}

Stages == {"absent", "pending", "verified", "mismatch", "failed"} \cup Running

VARIABLES
  disk,       \* the file at a path, Nothing without one
  assetPath,  \* path of an asset, None while it does not exist
  active,     \* an asset's active version
  upload,     \* the upload at work: its step and target path
  uploaded,   \* how many uploads wrote a file so far
  bytes,      \* what an upload wrote
  origin,     \* where it wrote it
  stage,      \* where a plan is; Running while a thread executes it
  ops, snaps, \* what a plan was created with
  at,         \* operation its thread is at
  took,       \* history: the file each of its moves renamed
  overlap     \* history: did a handler ever start while another was at work?

files == <<disk, uploaded, bytes, origin>>
assets == <<assetPath, active>>
plans == <<stage, ops, snaps, at, took>>
vars == <<files, assets, upload, plans, overlap>>

Idle == [step |-> "idle", path |-> None]

TypeOK ==
  /\ disk \in [Paths -> Files]
  /\ assetPath \in [Uploads -> Paths \cup {None}]
  /\ active \in [Uploads -> Files]
  /\ upload \in [step : {"probe", "write", "register"}, path : Paths] \cup {Idle}
  /\ uploaded \in 0 .. MaxUploads
  /\ bytes \in [Uploads -> Bytes \cup {None}]
  /\ origin \in [Uploads -> Paths \cup {None}]
  /\ stage \in [Plans -> Stages]
  /\ \A p \in Plans : stage[p] # "absent" =>
       /\ ops[p] \in SeqsUpTo(Operations, MaxOps)
       /\ snaps[p] \in [DOMAIN ops[p] -> Snapshots]
       /\ at[p] \in DOMAIN ops[p]
       /\ took[p] \in [DOMAIN ops[p] -> Files]
  /\ overlap \in BOOLEAN

Init ==
  /\ disk = [x \in Paths |-> Nothing]
  /\ assetPath = [a \in Uploads |-> None]
  /\ active = [a \in Uploads |-> Nothing]
  /\ upload = Idle
  /\ uploaded = 0
  /\ bytes = [u \in Uploads |-> None]
  /\ origin = [u \in Uploads |-> None]
  /\ stage = [p \in Plans |-> "absent"]
  /\ ops = [p \in Plans |-> <<>>]
  /\ snaps = [p \in Plans |-> <<>>]
  /\ at = [p \in Plans |-> 1]
  /\ took = [p \in Plans |-> <<>>]
  /\ overlap = FALSE
-----------------------------------------------------------------------------
InFlight ==
  Cardinality({p \in Plans : stage[p] \in Running}) + (IF upload = Idle THEN 0 ELSE 1)

AssetsAt(path) == {a \in Uploads : assetPath[a] = path}

\* find_asset_by_path returns the oldest record: moves keep a record's place.
AssetAt(path) == Min(AssetsAt(path))

Begin ==
  /\ InFlight < MaxInFlight
  /\ overlap' = (overlap \/ InFlight > 0)

\* An upload onto the path of any asset is an overwrite, which the policy denies.
UploadCheck ==
  /\ upload = Idle /\ Begin
  /\ uploaded < MaxUploads
  /\ \E path \in Paths :
       AssetsAt(path) = {} /\ upload' = [step |-> "probe", path |-> path]
  /\ UNCHANGED <<files, assets, plans>>

\* ControlledFileExecutor.upload looks for the target first, then writes it.
UploadProbe ==
  /\ upload.step = "probe"
  /\ upload' = IF disk[upload.path] # Nothing THEN Idle
               ELSE [step |-> "write", path |-> upload.path]
  /\ UNCHANGED <<files, assets, plans, overlap>>

UploadWrite ==
  /\ upload.step = "write"
  /\ uploaded' = uploaded + 1
  /\ disk' = [disk EXCEPT ![upload.path] = uploaded']
  /\ \E content \in Bytes : bytes' = [bytes EXCEPT ![uploaded'] = content]
  /\ origin' = [origin EXCEPT ![uploaded'] = upload.path]
  /\ upload' = [step |-> "register", path |-> upload.path]
  /\ UNCHANGED <<assets, plans, overlap>>

\* get_or_create_asset, a version, its states up to ready and its activation: until
\* the last of them the asset has no active version, which is as good as no asset.
UploadRegister ==
  /\ upload.step = "register"
  /\ LET asset == IF AssetsAt(upload.path) = {} THEN uploaded ELSE AssetAt(upload.path)
     IN  /\ assetPath' = [assetPath EXCEPT ![asset] = upload.path]
         /\ active' = [active EXCEPT ![asset] = uploaded]
  /\ upload' = Idle
  /\ UNCHANGED <<files, plans, overlap>>
-----------------------------------------------------------------------------
\* create_plan needs an asset at each source and keeps its id, version and fingerprint.
CreatePlan(p) ==
  /\ stage[p] = "absent"
  /\ \E operations \in SeqsUpTo(Operations, MaxOps) :
       /\ \A i \in DOMAIN operations : AssetsAt(operations[i].source) # {}
       /\ ops' = [ops EXCEPT ![p] = operations]
       /\ snaps' = [snaps EXCEPT ![p] = [i \in DOMAIN operations |->
            LET asset == AssetAt(operations[i].source)
            IN  [asset |-> asset, version |-> active[asset]]]]
       /\ took' = [took EXCEPT ![p] = [i \in DOMAIN operations |-> Nothing]]
  /\ stage' = [stage EXCEPT ![p] = "pending"]
  /\ UNCHANGED <<files, assets, upload, at, overlap>>

\* Revalidation compares versions, whose fingerprints never change, not the asset's path.
SnapshotsMatch(p) == \A i \in DOMAIN snaps[p] : active[snaps[p][i].asset] = snaps[p][i].version

Start(p) ==
  /\ stage[p] = "pending" /\ Begin
  /\ SnapshotsMatch(p)
  /\ stage' = [stage EXCEPT ![p] = "execute"]
  /\ UNCHANGED <<files, assets, upload, ops, snaps, at, took>>

Op(p) == ops[p][at[p]]

Snap(p) == snaps[p][at[p]]

Advance_OffByOne(p, phase) ==
  IF at[p] <= Len(ops[p])
  THEN at' = [at EXCEPT ![p] = @ + 1] /\ UNCHANGED stage
  ELSE at' = [at EXCEPT ![p] = 1] /\ stage' = [stage EXCEPT ![p] = phase]

Advance_SkipsLast(p, phase) ==
  IF at[p] < Len(ops[p]) - 1
  THEN at' = [at EXCEPT ![p] = @ + 1] /\ UNCHANGED stage
  ELSE at' = [at EXCEPT ![p] = 1] /\ stage' = [stage EXCEPT ![p] = phase]

\* The thread turns to the next operation or, after the last, to the next phase.
Advance(p, phase) ==
  IF at[p] < Len(ops[p])
  THEN at' = [at EXCEPT ![p] = @ + 1] /\ UNCHANGED stage
  ELSE at' = [at EXCEPT ![p] = 1] /\ stage' = [stage EXCEPT ![p] = phase]

Conclude(p, result) ==
  /\ stage' = [stage EXCEPT ![p] = result]
  /\ UNCHANGED at

\* rename replaces a file at the target. An operation that fails leaves the earlier
\* ones of its plan done.
Move(p) ==
  /\ Op(p).type = "move_rename"
  /\ \/ /\ disk[Op(p).source] # Nothing
        /\ disk' = [disk EXCEPT ![Op(p).source] = Nothing, ![Op(p).target] = disk[Op(p).source]]
        /\ took' = [took EXCEPT ![p][at[p]] = disk[Op(p).source]]
        /\ Advance(p, "verify")
     \/ disk[Op(p).source] = Nothing /\ Conclude(p, "failed") /\ UNCHANGED <<disk, took>>

\* A missing file counts as removed, unless it goes between exists and unlink.
Trash(p) ==
  /\ Op(p).type = "trash"
  /\ \/ disk' = [disk EXCEPT ![Op(p).source] = Nothing] /\ Advance(p, "verify")
     \/ /\ disk[Op(p).source] = Nothing /\ InFlight > 1
        /\ Conclude(p, "failed") /\ UNCHANGED disk
  /\ UNCHANGED took

Keep(p) ==
  /\ Op(p).type = "upload"
  /\ \/ disk[Op(p).source] # Nothing /\ Advance(p, "verify")
     \/ disk[Op(p).source] = Nothing /\ Conclude(p, "failed")
  /\ UNCHANGED <<disk, took>>

Execute(p) ==
  /\ stage[p] = "execute"
  /\ Move(p) \/ Trash(p) \/ Keep(p)
  /\ UNCHANGED <<uploaded, bytes, origin, assets, upload, ops, snaps, overlap>>

\* The read-back of one operation against the disk as it is then.
EntryMatches_AnyContent(p) ==
  CASE Op(p).type = "move_rename" -> disk[Op(p).target] # Nothing /\ disk[Op(p).source] = Nothing
    [] Op(p).type = "trash"       -> disk[Op(p).source] = Nothing
    [] Op(p).type = "upload"      -> disk[Op(p).source] # Nothing

\* Both have a fingerprint, and the same.
Same(file, version) == file # Nothing /\ bytes[file] = bytes[version]

EntryMatches(p) ==
  CASE Op(p).type = "move_rename" -> /\ Same(disk[Op(p).target], Snap(p).version)
                                     /\ disk[Op(p).source] = Nothing
    [] Op(p).type = "trash"       -> disk[Op(p).source] = Nothing
    [] Op(p).type = "upload"      -> Same(disk[Op(p).source], Snap(p).version)

Verify(p) ==
  /\ stage[p] = "verify"
  /\ \/ EntryMatches(p) /\ Advance(p, "apply")
     \/ ~EntryMatches(p) /\ Conclude(p, "mismatch")
  /\ UNCHANGED <<files, assets, upload, ops, snaps, took, overlap>>

\* Only a verified plan renames its assets.
Apply(p) ==
  /\ stage[p] = "apply"
  /\ IF Op(p).type = "move_rename"
     THEN assetPath' = [assetPath EXCEPT ![Snap(p).asset] = Op(p).target]
     ELSE UNCHANGED assetPath
  /\ Advance(p, "verified")
  /\ UNCHANGED <<files, active, upload, ops, snaps, took, overlap>>

Next ==
  \/ UploadCheck \/ UploadProbe \/ UploadWrite \/ UploadRegister
  \/ \E p \in Plans : CreatePlan(p) \/ Start(p) \/ Execute(p) \/ Verify(p) \/ Apply(p)

Spec == Init /\ [][Next]_vars
-----------------------------------------------------------------------------
Verified(p, i, type) == stage[p] = "verified" /\ ops[p][i].type = type

\* Operation i of plan p was carried out: the execution is past it.
Ran(p, i) ==
  \/ stage[p] \in {"execute", "failed"} /\ i < at[p]
  \/ stage[p] \in {"verify", "apply", "verified", "mismatch"}

MoveRan(p, i) == ops[p][i].type = "move_rename" /\ Ran(p, i)

\* Operation i of plan p emptied or filled path.
Touched(p, i, path) ==
  /\ Ran(p, i) /\ ops[p][i].type # "upload"
  /\ path = ops[p][i].source \/ (MoveRan(p, i) /\ path = ops[p][i].target)

\* A move from path for another asset's record verifies though it takes the file of asset a:
\* the bytes are the same, or another move of the plan put the approved ones at its target.
TakesAnother(p, i, a) ==
  \/ bytes[snaps[p][i].version] = bytes[active[a]]
  \/ \E j \in DOMAIN ops[p] :
       /\ ops[p][j].type = "move_rename"
       /\ ops[p][j].target = ops[p][i].target /\ ops[p][j].source # ops[p][i].source

\* As long as no handler overlapped another, the file at a record's path has the bytes of
\* the record's version, whatever plans verified, failed or mismatched.  Otherwise the plan to
\* blame is on record with an operation on that path: one that did not verify; a verified
\* trash; or a verified move, for another asset, onto the path or, its snapshots stale, away.
RecordsAgreeWithDisk ==
  ~overlap /\ InFlight = 0 =>
    \A a \in Uploads : assetPath[a] # None =>
      \/ Same(disk[assetPath[a]], active[a])
      \/ \E p \in Plans : \E i \in DOMAIN ops[p] :
           \/ stage[p] \in {"failed", "mismatch"} /\ Touched(p, i, assetPath[a])
           \/ Verified(p, i, "trash") /\ ops[p][i].source = assetPath[a]
           \/ /\ Verified(p, i, "move_rename") /\ snaps[p][i].asset # a
              /\ \/ ops[p][i].target = assetPath[a]
                 \/ ops[p][i].source = assetPath[a] /\ TakesAnother(p, i, a)

\* Of two operations that move one version away from one path, threads and uploads in
\* any order, at most one is verified, unless a file was brought to that path or to one of
\* their targets by another move, or by an upload of the same bytes.
RaceHasOneWinner ==
  \A p, q \in Plans : \A i \in DOMAIN ops[p], j \in DOMAIN ops[q] :
    /\ <<p, i>> # <<q, j>>
    /\ Verified(p, i, "move_rename") /\ Verified(q, j, "move_rename")
    /\ snaps[p][i] = snaps[q][j] /\ ops[p][i].source = ops[q][j].source
    => LET paths == {ops[p][i].source, ops[p][i].target, ops[q][j].target}
       IN  \/ \E r \in Plans : \E k \in DOMAIN ops[r] :
                /\ MoveRan(r, k) /\ <<r, k>> \notin {<<p, i>>, <<q, j>>}
                /\ ops[r][k].target \in paths
           \/ \E u \in 1 .. uploaded \ {snaps[p][i].version} :
                Same(u, snaps[p][i].version) /\ origin[u] \in paths

\* The file a verified trash plan was approved for is gone, threads in any order, unless
\* a move took it from that path before the trash came, or the path had come to its
\* record by a move of another file: the read-back looks at that path only, where
\* engineering-principles.md:163 promises to block a trash that leaves its file.
TrashRemovesItsFile ==
  \A p \in Plans : \A i \in DOMAIN ops[p] :
    Verified(p, i, "trash") /\ (\E x \in Paths : disk[x] = snaps[p][i].version) =>
      \E q \in Plans : \E j \in DOMAIN ops[q] :
        /\ MoveRan(q, j)
        /\ \/ ops[q][j].source = ops[p][i].source /\ took[q][j] = snaps[p][i].version
           \/ /\ ops[q][j].target = ops[p][i].source /\ took[q][j] # snaps[p][i].version
              /\ snaps[q][j].asset = snaps[p][i].asset
=============================================================================
