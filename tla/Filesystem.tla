------------------------------ MODULE Filesystem ------------------------------
(***************************************************************************)
(* One call of the filesystem tool (runtime/filesystem.rs), from its route *)
(* to its settlement, while another process of the device may replace the  *)
(* entry at the destination, a primitive may fail, the provider may be     *)
(* replaced and the caller may cancel.                                     *)
(*                                                                         *)
(* An entry is its kind, its identity (which stands for device and inode,  *)
(* and for the content) and how many of its pieces are present: the chunks *)
(* of a file or the children of a directory.  Every publication builds the *)
(* new entry beside its destination and renames it into place; how it is   *)
(* checked, renamed, rolled back and cleaned up differs between the native *)
(* kernel (App or root identity) and the Shizuku primitives.               *)
(***************************************************************************)
EXTENDS Resolver, FiniteSets

CONSTANTS
  Pieces,         \* pieces of a whole entry
  MaxFsFaults,    \* primitives that fail
  MaxOutside,     \* replacements of the destination by another process
  MaxFsFacts      \* changes of the Shizuku capability

ASSUME FilesystemAssumption ==
  Pieces \in Nat \ {0} /\ MaxFsFaults \in Nat /\ MaxOutside \in Nat /\ MaxFsFacts \in Nat

VARIABLES
  fs,       \* the entries the call can touch: destination, source, temporary sibling, Task temp
  fsx,      \* the call and where it is
  fsHost,   \* the host and what each identity may do to the destination's directory
  fsCap,    \* the Shizuku capability: available, generation
  faults, outside, factsChanged

fsVars == <<fs, fsx, fsHost, fsCap, faults, outside, factsChanged>>

Kinds == {"none", "file", "dir", "link"}
NoEntry == [kind |-> "none", id |-> "none", body |-> 0]
Entry(k, i) == [kind |-> k, id |-> i, body |-> Pieces]
Slots == {"dst", "src", "pub", "stage"}
Present(s) == fs[s].kind # "none"

-----------------------------------------------------------------------------
(* Calls and their route.                                                  *)

\* kind: what is copied or moved; over: overwrite; rec: recursive, or parents; ns: the
\* namespace of the targets (a path, shared storage, a content URI, or several of them).
Call(op, k, over, rec, ns) == [op |-> op, kind |-> k, over |-> over, rec |-> rec, ns |-> ns]
Namespaces == {"path", "shared", "content", "mixed"}

ReadCalls    == {Call(op, "file", FALSE, FALSE, ns) : op \in {"inspect", "read", "data_ref", "list"},
                                                      ns \in {"path", "shared", "content"}}
WriteCalls   == {Call(op, "file", op # "create", FALSE, ns) : op \in {"create", "replace", "edit"},
                                                              ns \in {"path", "shared", "content"}}
ManageCalls  == {Call("mkdir", "dir", FALSE, rec, "path") : rec \in BOOLEAN}
                  \cup {Call("delete", "file", FALSE, rec, "path") : rec \in BOOLEAN}
                  \cup {Call(op, k, over, rec, "path") : op \in {"copy", "move"},
                          k \in {"file", "dir", "link"}, over \in BOOLEAN, rec \in BOOLEAN}
                  \cup {Call("move", "file", TRUE, FALSE, "mixed")}
TaskCalls    == {Call(op, IF op = "extract" THEN "dir" ELSE "file", over, FALSE, "path") :
                   op \in {"download", "archive", "extract"}, over \in BOOLEAN}
FsCalls      == ReadCalls \cup WriteCalls \cup ManageCalls \cup TaskCalls

is_filesystem_task(c) == c.op \in {"download", "archive", "extract"}
ReadOnly(c) == c.op \in {"inspect", "read", "data_ref", "list"}

\* filesystem_route: an action may cross neither providers nor storage authorities, and a
\* content URI can only be inspected and read.
filesystem_route(c) ==
  IF c.op = "data_ref" THEN "free"
  ELSE IF c.ns = "mixed" \/ (c.ns = "content" /\ c.op \notin {"inspect", "read"}) THEN "unsupported"
  ELSE IF ReadOnly(c) THEN "inspect_or_read" ELSE "mutation"

\* What an identity may do beside the destination: nothing, create, or also replace what
\* is there (the sticky bit keeps an entry of another owner).
MayCreate(who)  == fsHost.reach[who] # "none"
MayReplace(who) == fsHost.reach[who] = "replace"

preflight_read_source(who, s) == MayCreate(who) /\ Present(s)
preflight_destination(who, over) ==
  MayCreate(who) /\ (Present("dst") /\ over => MayReplace(who))
preflight_existing_mutation(who, s) == Present(s) /\ MayReplace(who)
preflight_replace(who) == fs["dst"].kind = "file" /\ MayReplace(who)
preflight_mkdir(who, parents) == MayCreate(who) \/ (parents /\ fs["dst"].kind = "dir")

\* filesystem_preflight: whether this identity could do all the call does, found out
\* without changing anything.
filesystem_preflight(who, c) ==
  CASE c.op \in {"inspect", "read", "list"} -> preflight_read_source(who, "dst")
    [] c.op \in {"create", "download"} -> preflight_destination(who, c.over)
    [] c.op \in {"replace", "edit"} -> preflight_replace(who)
    [] c.op = "mkdir" -> preflight_mkdir(who, c.rec)
    [] c.op = "delete" -> preflight_existing_mutation(who, "dst")
    [] c.op \in {"copy", "archive", "extract"} ->
         preflight_read_source(who, "src") /\ preflight_destination(who, c.over)
    [] c.op = "move" ->
         preflight_existing_mutation(who, "src") /\ preflight_destination(who, c.over)

\* The same questions asked of the privileged primitives, which open neither a link nor a
\* special entry as a source.
primitive_preflight_inspect == MayCreate("shizuku") /\ Present("dst")
primitive_preflight_read_source(s, regular) ==
  MayCreate("shizuku") /\ fs[s].kind \in {"file"} \cup (IF regular THEN {} ELSE {"dir"})
primitive_preflight_replace ==
  primitive_preflight_read_source("dst", TRUE) /\ MayReplace("shizuku")
primitive_preflight_existing_mutation(s) == Present(s) /\ MayReplace("shizuku")
primitive_preflight_destination(over) ==
  MayCreate("shizuku") /\ (Present("dst") /\ over => MayReplace("shizuku"))
primitive_preflight_mkdir(parents) ==
  MayCreate("shizuku") \/ (parents /\ fs["dst"].kind = "dir")

shizuku_filesystem_preflight(c) ==
  CASE c.op = "inspect" -> primitive_preflight_inspect
    [] c.op \in {"read", "list"} -> primitive_preflight_read_source("dst", FALSE)
    [] c.op \in {"create", "download"} -> primitive_preflight_destination(c.over)
    [] c.op \in {"replace", "edit"} -> primitive_preflight_replace
    [] c.op = "mkdir" -> primitive_preflight_mkdir(c.rec)
    [] c.op = "delete" -> primitive_preflight_existing_mutation("dst")
    [] c.op = "move" ->
         primitive_preflight_existing_mutation("src") /\ primitive_preflight_destination(c.over)
    [] c.op \in {"copy", "archive", "extract"} ->
         /\ primitive_preflight_read_source("src", c.op = "extract")
         /\ primitive_preflight_destination(c.over)

\* filesystem_executor_request: shared storage belongs to Shizuku while it is available;
\* elsewhere the App is asked first and Shizuku only when the App cannot.
filesystem_executor_request(c) ==
  LET app == filesystem_preflight("app", c)
      shz == fsCap.up /\ IF c.ns = "shared" THEN TRUE
                         ELSE ~app /\ shizuku_filesystem_preflight(c)
      own == IF c.ns = "shared" THEN ~fsCap.up ELSE app
      mark(b) == IF b THEN "positive" ELSE "unknown"
      path == c.ns \in {"path", "shared"} /\ fsHost.host = "apk"
  IN  [tool |-> "filesystem", route |-> filesystem_route(c),
       target |-> IF c.ns = "content" THEN "content" ELSE "path",
       app |-> mark(path /\ own), shizuku |-> mark(path /\ shz)]

FsUp  == {"app_native", "app_framework", "magisk_native"} \cup (IF fsCap.up THEN {"shizuku"} ELSE {})
FsGen == [p \in Providers |-> IF p = "shizuku" THEN fsCap.generation ELSE 1]
Admit(c) == resolve_executor(fsHost.host, FsUp, FsGen, filesystem_executor_request(c))

\* filesystem_executor_is_current: the admitted provider has not been lost or replaced.
filesystem_executor_is_current(e) ==
  e.provider \in FsUp /\ e.generation = FsGen[e.provider]

-----------------------------------------------------------------------------
(* What each action does, as the sequence of its steps.                    *)

Shizuku == fsx.by.provider = "shizuku"

\* The end of every Shizuku publication (primitive_publish_path) and of the native one by
\* exchange (publish_renamed_path), which removes what it displaced before it syncs.
PrimitivePublish == <<"recheck", "rename", "identity", "syncdir", "displace">>
ExchangePublish  == <<"recheck", "rename", "identity", "displace", "syncdir">>
\* primitive_publish_reader, and publish_file_from_reader with its plain rename.
PublishReader == <<"create", "fill", "check", "sync">> \o PrimitivePublish
PublishFile   == <<"check", "create", "fill", "sync", "rename", "syncdir">>

\* The actions through the Shizuku primitives.
primitive_write          == <<"check", "create", "fill", "sync">> \o PrimitivePublish \o <<"verify">>
primitive_copy_path(c)   == <<"check">> \o (IF c.kind = "file" THEN PublishReader
                                            ELSE <<"create", "fill">> \o PrimitivePublish)
primitive_download       == <<"check", "stage", "check">> \o PublishReader \o <<"verify">>
primitive_archive_create == <<"check", "stage", "check">> \o PublishReader \o <<"verify">>
primitive_archive_extract ==
  <<"check", "stage", "create", "fill">> \o PrimitivePublish \o <<"verify">>
primitive_manage(c) ==
  CASE c.op = "mkdir"  -> <<"mkdir", "verify">>
    [] c.op = "copy"   -> primitive_copy_path(c) \o <<"verify">>
    [] c.op = "move"   -> <<"check">> \o PrimitivePublish \o <<"verify">>
    [] c.op = "delete" -> <<"delete", "verify">>

execute_shizuku_filesystem(c) ==
  CASE c.op \in {"create", "replace", "edit"} -> primitive_write
    [] c.op \in {"mkdir", "copy", "move", "delete"} -> primitive_manage(c)
    [] c.op = "download" -> primitive_download
    [] c.op = "archive" -> primitive_archive_create
    [] c.op = "extract" -> primitive_archive_extract
    [] OTHER -> <<"look">>

\* The native kernel: "lock" and "commit" delimit what runs inside the claim's publication.
write        == <<"check", "create", "fill", "sync", "rename", "syncdir", "verify">>
copy_path(c) == <<"check">> \o (IF c.kind = "file" THEN PublishFile
                                ELSE <<"create", "fill">> \o ExchangePublish)
manage(c) ==
  CASE c.op = "mkdir"  -> <<"mkdir", "verify">>
    [] c.op = "copy"   -> copy_path(c) \o <<"verify">>
    [] c.op = "move"   -> <<"check">> \o ExchangePublish \o <<"verify">>
    [] c.op = "delete" -> <<"delete", "verify">>
download_inner ==
  <<"check", "stage", "lock">> \o PublishFile \o <<"unstage", "commit", "verify">>
archive_create_inner ==
  <<"stage", "lock">> \o PublishFile \o <<"unstage", "commit", "verify">>
archive_extract_inner ==
  <<"stage", "check", "create", "fill", "lock">> \o ExchangePublish \o <<"commit", "verify">>

execute_inner(c) ==
  CASE c.op \in {"create", "replace", "edit"} -> write
    [] c.op \in {"mkdir", "copy", "move", "delete"} -> manage(c)
    [] c.op = "download" -> download_inner
    [] c.op = "archive" -> archive_create_inner
    [] c.op = "extract" -> archive_extract_inner
    [] OTHER -> <<"look">>

Program == IF Shizuku THEN execute_shizuku_filesystem(fsx.call) ELSE execute_inner(fsx.call)
At(step) == /\ fsx.phase = "running"
            /\ fsx.at <= Len(Program)
            /\ Program[fsx.at] = step

\* The entry that is renamed: the source of a move, otherwise the temporary sibling.
From == IF fsx.call.op = "move" THEN "src" ELSE "pub"

\* A native publication without a displaced entry to check renames plainly over a regular
\* file it saw (atomic_regular_write, publish_file_from_reader).
PlainRename == ~Shizuku /\ ~(\E i \in 1..Len(Program) : Program[i] = "recheck")

Who == IF Shizuku THEN "shizuku" ELSE "app"

Next1   == fsx' = [fsx EXCEPT !.at = @ + 1]
Fail(e) == fsx' = [fsx EXCEPT !.err = e, !.phase = "failing", !.locked = FALSE]
Fault   == faults < MaxFsFaults /\ faults' = faults + 1
Other   == UNCHANGED <<fsHost, fsCap, outside, factsChanged>>
NoFault == UNCHANGED faults
Breaks(e) == Fault /\ Fail(e) /\ UNCHANGED fs

\* The steps that ask the claim first: a requested cancellation ends the call there.
\* The native write and manage actions ask it only before they start.  Only a Task can be
\* cancelled, so a synchronous action that asks is never refused.
Asks == (IF fsx.call.op = "archive" THEN {"verify"} ELSE {}) \cup
        IF Shizuku
        THEN {"stage", "rename", "delete", "mkdir"}
               \cup (IF fsx.call.op \in {"create", "replace", "edit"} THEN {} ELSE {"fill"})
        ELSE CASE fsx.call.op \in {"download", "archive"} -> {"stage", "lock"}
               [] fsx.call.op = "extract" -> {"fill", "lock"}
               [] OTHER -> {}
Refused == fsx.requested /\ Program[fsx.at] \in Asks

Begin(step) == At(step) /\ ~Refused /\ Other

\* cancellation_checkpoint, and the refusal of LocalExecutionClaim::publish.
FsCancelled ==
  /\ fsx.phase = "running" /\ fsx.at <= Len(Program) /\ Refused
  /\ Fail("cancelled")
  /\ UNCHANGED fs /\ NoFault /\ Other

-----------------------------------------------------------------------------
(* Admission and start.                                                    *)

NoCall == [phase |-> "idle", call |-> Call("inspect", "file", FALSE, FALSE, "path"),
           by |-> NoExecutor, at |-> 1, over |-> FALSE, seen |-> "none", exists |-> FALSE,
           owned |-> FALSE, left |-> 0, late |-> "ok", rolled |-> FALSE, locked |-> FALSE,
           requested |-> FALSE, committed |-> FALSE, verified |-> TRUE, err |-> "ok"]

\* The source a call names is there, or missing.
Fits(c) == fs["src"].kind \in {"none"} \cup (CASE c.op \in {"copy", "move"} -> {c.kind}
                                                [] c.op \in {"archive", "extract"} -> {"file"}
                                                [] OTHER -> {})

\* handle_filesystem_public: a call no provider may serve is refused, a data artifact is
\* read without an executor, and every other call is admitted with the one resolved now.
FsSubmit ==
  /\ fsx.phase = "idle"
  /\ \E c \in FsCalls, left \in 1..2 :
       LET route == filesystem_route(c)
           new   == [NoCall EXCEPT !.call = c, !.over = c.over, !.left = left]
       IN  /\ Fits(c) /\ (left = 2 => c.op = "mkdir" /\ c.rec)
           /\ fsx' = IF route = "unsupported" THEN [new EXCEPT !.phase = "done", !.err = "unsupported"]
                     ELSE IF route = "free" THEN [new EXCEPT !.phase = "running"]
                     ELSE IF Admit(c) = NoExecutor
                     THEN [new EXCEPT !.phase = "done", !.err = "unavailable"]
                     ELSE [new EXCEPT !.phase = "admitted", !.by = Admit(c)]
  /\ UNCHANGED fs /\ NoFault /\ Other

\* claim_and_start and the checks of execute_filesystem before it dispatches.
FsStart ==
  /\ fsx.phase = "admitted"
  /\ IF ~filesystem_executor_is_current(fsx.by) THEN Fail("stale")
     ELSE IF fsx.requested THEN Fail("cancelled")
     ELSE fsx' = [fsx EXCEPT !.phase = "running"]
  /\ UNCHANGED fs /\ NoFault /\ Other

\* What a read-only step finds: its target, nothing, or a fault.
Looks(there) ==
  /\ Begin("look")
  /\ \/ there /\ Next1 /\ UNCHANGED fs /\ NoFault
     \/ ~there /\ Fail("notfound") /\ UNCHANGED fs /\ NoFault
     \/ Breaks("io")

\* inspect and read, and their content URIs through the framework; a data artifact is there
\* until it is evicted.
FsInspect == fsx.call.op = "inspect" /\ Looks(Present("dst") \/ fsx.call.ns = "content")
FsRead    == fsx.call.op = "read" /\ Looks(fs["dst"].kind = "file" \/ fsx.call.ns = "content")
FsReadRef == fsx.call.op = "data_ref" /\ Looks(TRUE)
FsList    == fsx.call.op = "list" /\ Looks(fs["dst"].kind = "file")

\* The destination's checks of each action before it builds anything; fsx.over is what a
\* Shizuku file copy passes on, which is whether it saw a destination.
CheckError ==
  LET c == fsx.call
      filed == ~Shizuku /\ Program[fsx.at + 1] = "create" /\ c.kind = "file"
  IN  IF c.op \in {"replace", "edit"} /\ ~Present("dst") THEN "notfound"
      ELSE IF c.op \in {"replace", "edit"} /\ fs["dst"].kind # "file" THEN "unsupported"
      ELSE IF c.op \in {"copy", "move", "extract"} /\ ~Present("src") THEN "notfound"
      ELSE IF c.op \in {"copy", "move"} /\ c.kind = "dir" /\ ~c.rec THEN "notempty"
      ELSE IF Present("dst") /\ ~fsx.over /\ ~(Shizuku /\ c.op = "move") THEN "exists"
      ELSE IF filed /\ Present("dst") /\ fs["dst"].kind # "file" THEN "unsupported"
      ELSE IF Shizuku /\ c.op # "move" /\ Present("dst") /\ ~MayReplace("shizuku") THEN "denied"
      ELSE "ok"

FsCheck ==
  /\ Begin("check")
  /\ \/ /\ CheckError = "ok"
        /\ fsx' = [fsx EXCEPT !.at = @ + 1, !.seen = fs["dst"].id, !.exists = Present("dst"),
                     !.over = IF Shizuku /\ fsx.call.op = "copy" /\ fsx.call.kind = "file"
                                 /\ fsx.at = 1 THEN Present("dst") ELSE @]
        /\ UNCHANGED fs /\ NoFault
     \/ CheckError # "ok" /\ Fail(CheckError) /\ UNCHANGED fs /\ NoFault
     \/ Breaks("io")

\* One piece more of an entry that is being built, or the end of it.
Grows(step, slot) ==
  /\ Begin(step)
  /\ \/ /\ fs[slot].body < Pieces
        /\ fs' = [fs EXCEPT ![slot] = [kind |-> fsx.call.kind, id |-> "new", body |-> @.body + 1]]
        /\ UNCHANGED fsx /\ NoFault
     \/ fs[slot].body = Pieces /\ Next1 /\ UNCHANGED fs /\ NoFault
     \/ Breaks("io")

\* The Task's own temporary: a download, the archive of the sources, or the extracted tree,
\* which an entry that would leave it ends.
FsDownload == fsx.call.op = "download" /\ Grows("stage", "stage")
FsPack ==
  \/ fsx.call.op = "archive" /\ Present("src") /\ Grows("stage", "stage")
  \/ /\ fsx.call.op = "archive" /\ ~Present("src") /\ Begin("stage")
     /\ Fail("notfound") /\ UNCHANGED fs /\ NoFault
FsUnpack ==
  \/ fsx.call.op = "extract" /\ Present("src") /\ Grows("stage", "stage")
  \/ /\ fsx.call.op = "extract" /\ Begin("stage")
     /\ Fail(IF Present("src") THEN "corrupt" ELSE "notfound") /\ UNCHANGED fs /\ NoFault

-----------------------------------------------------------------------------
(* Building the new entry beside its destination.                          *)

\* create_exclusive, mkdir or symlink of the temporary sibling.  A Shizuku directory or
\* link is synced before it counts as owned (primitive_create_directory).
FsCreate ==
  LET made == [fs EXCEPT !["pub"] = [kind |-> fsx.call.kind, id |-> "new",
                                     body |-> IF fsx.call.kind = "link" THEN Pieces ELSE 0]]
  IN  /\ Begin("create")
      /\ \/ ~MayCreate(Who) /\ Fail("denied") /\ UNCHANGED fs /\ NoFault
         \/ /\ MayCreate(Who)
            /\ fsx' = [fsx EXCEPT !.at = @ + 1, !.owned = TRUE]
            /\ fs' = made /\ NoFault
         \/ Breaks("io")
         \/ /\ Shizuku /\ fsx.call.kind # "file" /\ MayCreate(Who)
            /\ Fault /\ Fail("io") /\ fs' = made

\* Mutant: a short read is taken for the end of the source.
FsFill_Short ==
  \/ fsx.call.kind = "file" /\ Grows("fill", "pub")
  \/ fsx.call.kind = "file" /\ Begin("fill") /\ Next1 /\ UNCHANGED fs /\ NoFault

\* copy_with_claim and write_all; a tree is copied entry by entry, from the source or from
\* the extracted stage; a link is whole once it is made.
FsFill == fsx.call.kind = "file" /\ Grows("fill", "pub")

FsCopyTree == fsx.call.op = "copy" /\ fsx.call.kind = "dir" /\ Grows("fill", "pub")
FsCopyLink == fsx.call.op = "copy" /\ fsx.call.kind = "link" /\ Grows("fill", "pub")
FsCopyStage == fsx.call.op = "extract" /\ Grows("fill", "pub")

\* The replaced file's owner, mode and label are put on the new one, which is synced.
FsSync ==
  /\ Begin("sync")
  /\ \/ Next1 /\ UNCHANGED fs /\ NoFault
     \/ Breaks("io")

-----------------------------------------------------------------------------
(* Publication.                                                            *)

\* The native publications that run under the claim's lock enter it here.
FsLock ==
  /\ Begin("lock")
  /\ fsx' = [fsx EXCEPT !.at = @ + 1, !.locked = TRUE]
  /\ UNCHANGED fs /\ NoFault

\* The check of primitive_publish_path and publish_renamed_path right before the rename.
FsRecheck ==
  LET e == IF Present("dst") /\ ~fsx.over THEN "exists"
           ELSE IF fs["dst"].kind = "dir" /\ fs[From].kind # "dir" THEN "unsupported" ELSE "ok"
  IN  /\ Begin("recheck")
      /\ \/ /\ e = "ok"
            /\ fsx' = [fsx EXCEPT !.at = @ + 1, !.seen = fs["dst"].id, !.exists = Present("dst")]
            /\ UNCHANGED fs /\ NoFault
         \/ e # "ok" /\ Fail(e) /\ UNCHANGED fs /\ NoFault
         \/ Breaks("io")

Swapped == [fs EXCEPT !["dst"] = fs[From], ![From] = fs["dst"]]
Moved   == [fs EXCEPT !["dst"] = fs[From], ![From] = NoEntry]

\* Mutant: the publication of a new entry renames without RENAME_NOREPLACE.
Renames_Replacing ==
  CASE ~fsx.exists -> "moves"
    [] fsx.exists /\ PlainRename -> IF fs["dst"].kind = "dir" THEN "io" ELSE "moves"
    [] fsx.exists /\ ~PlainRename -> IF Present("dst") THEN "swaps" ELSE "notfound"

\* What the rename may do now: RENAME_NOREPLACE when no destination was seen, otherwise a
\* plain rename over a file (native) or RENAME_EXCHANGE.
Renames ==
  CASE ~fsx.exists -> IF Present("dst") THEN "exists" ELSE "moves"
    [] fsx.exists /\ PlainRename -> IF fs["dst"].kind = "dir" THEN "io" ELSE "moves"
    [] fsx.exists /\ ~PlainRename -> IF Present("dst") THEN "swaps" ELSE "notfound"

\* publish commits the claim: a cancellation that comes later finds the publication done.
Committed1 == fsx' = [fsx EXCEPT !.at = @ + 1, !.committed = @ \/ Shizuku]

\* Mutant: the claim is asked after its publication, not before.
FsRename_First ==
  /\ At("rename") /\ Other /\ NoFault
  /\ Renames \in {"moves", "swaps"} /\ (Present("dst") => MayReplace(Who))
  /\ fs' = IF Renames = "moves" THEN Moved ELSE Swapped
  /\ IF fsx.requested THEN Fail("cancelled") ELSE Committed1

FsRename ==
  /\ Begin("rename")
  /\ \/ /\ Renames \in {"moves", "swaps"} /\ (Present("dst") => MayReplace(Who))
        /\ fs' = IF Renames = "moves" THEN Moved ELSE Swapped
        /\ Committed1 /\ NoFault
     \/ /\ Renames \in {"moves", "swaps"} /\ Present("dst") /\ ~MayReplace(Who)
        /\ Fail("denied") /\ UNCHANGED fs /\ NoFault
     \/ Renames \notin {"moves", "swaps"} /\ Fail(Renames) /\ UNCHANGED fs /\ NoFault
     \/ Breaks("io")

ToRollback(e) == fsx' = [fsx EXCEPT !.phase = "rollback", !.err = e]

\* The entry an exchange displaced must be the one that was checked.
FsIdentity ==
  LET same == ~fsx.exists \/ fs[From].id = fsx.seen
  IN  /\ Begin("identity") /\ UNCHANGED fs
      /\ \/ same /\ Next1 /\ NoFault
         \/ ~same /\ ToRollback("changed") /\ NoFault
         \/ fsx.exists /\ Fault /\ ToRollback("changed")

\* The second exchange, which puts the displaced entry back.  The Shizuku one also syncs,
\* and reports what it could not undo as cleanup that is not verified.
FsRollback ==
  LET ended(ok) == fsx' = [fsx EXCEPT !.phase = "failing", !.locked = FALSE,
                             !.rolled = ok /\ fsx.err # "changed",
                             !.verified = @ /\ (ok \/ ~Shizuku)]
  IN  /\ fsx.phase = "rollback" /\ Other
      /\ \/ Present(From) /\ Present("dst") /\ fs' = Swapped /\ ended(TRUE) /\ NoFault
         \/ ~(Present(From) /\ Present("dst")) /\ UNCHANGED fs /\ ended(FALSE) /\ NoFault
         \/ Fault /\ UNCHANGED fs /\ ended(FALSE)
         \/ /\ Shizuku /\ Present(From) /\ Present("dst")
            /\ Fault /\ fs' = Swapped
            /\ fsx' = [fsx EXCEPT !.phase = "failing", !.verified = FALSE,
                                  !.rolled = fsx.err # "changed"]

\* The sync after the rename; the Shizuku publication removes what it displaced even when
\* the sync failed, and reports that failure afterwards.
FsSyncDir ==
  /\ Begin("syncdir")
  /\ \/ Next1 /\ UNCHANGED fs /\ NoFault
     \/ ~Shizuku /\ Breaks("io")
     \/ /\ Shizuku /\ Fault /\ UNCHANGED fs
        /\ fsx' = [fsx EXCEPT !.at = @ + 1, !.late = "io"]

\* remove_path of the displaced entry: a directory loses its children first, and a failure
\* on the way exchanges what is left back into place.
FsDisplace ==
  LET ends == IF fsx.late = "ok" THEN Next1 ELSE Fail(fsx.late)
  IN  /\ Begin("displace")
      /\ \/ ~fsx.exists /\ ends /\ UNCHANGED fs /\ NoFault
         \/ /\ fsx.exists /\ fs[From].kind = "dir" /\ fs[From].body > 0
            /\ fs' = [fs EXCEPT ![From].body = @ - 1]
            /\ UNCHANGED fsx /\ NoFault
         \/ /\ fsx.exists /\ (fs[From].kind = "dir" => fs[From].body = 0)
            /\ fs' = [fs EXCEPT ![From] = NoEntry]
            /\ \/ ends /\ NoFault
               \/ Shizuku /\ Fault /\ ToRollback("io")
         \/ fsx.exists /\ Fault /\ ToRollback("io") /\ UNCHANGED fs

\* publish_file removes the Task's temporary inside the publication.
FsUnstage ==
  /\ Begin("unstage")
  /\ \/ fs' = [fs EXCEPT !["stage"] = NoEntry] /\ Next1 /\ NoFault
     \/ Breaks("io")

FsCommit ==
  /\ Begin("commit")
  /\ fsx' = [fsx EXCEPT !.at = @ + 1, !.locked = FALSE, !.committed = TRUE]
  /\ UNCHANGED fs /\ NoFault

\* primitive_mkdir and create_dir_all: the missing parents first.
FsMkdir ==
  /\ Begin("mkdir")
  /\ \/ /\ Present("dst") /\ UNCHANGED fs /\ NoFault
        /\ IF fsx.call.rec /\ fs["dst"].kind = "dir" THEN Next1 ELSE Fail("exists")
     \/ ~Present("dst") /\ ~MayCreate(Who) /\ Fail("denied") /\ UNCHANGED fs /\ NoFault
     \/ /\ ~Present("dst") /\ MayCreate(Who)
        /\ fs' = IF fsx.left = 1 THEN [fs EXCEPT !["dst"] = Entry("dir", "new")] ELSE fs
        /\ \/ /\ fsx' = [fsx EXCEPT !.left = @ - 1, !.committed = @ \/ Shizuku,
                                    !.at = IF fsx.left = 1 THEN @ + 1 ELSE @]
              /\ NoFault
           \/ /\ Fault
              /\ fsx' = [fsx EXCEPT !.committed = @ \/ Shizuku, !.left = @ - 1,
                                    !.err = "io", !.phase = "failing"]
     \/ Breaks("io")

\* primitive_remove_path and remove_path: each Shizuku unlink is a publication of its own.
FsDelete ==
  LET commits(next) == fsx' = [fsx EXCEPT !.at = @ + next, !.committed = @ \/ Shizuku]
  IN  /\ Begin("delete")
      /\ \/ ~Present("dst") /\ Fail("notfound") /\ UNCHANGED fs /\ NoFault
         \/ /\ fs["dst"].kind = "dir" /\ fs["dst"].body > 0 /\ ~fsx.call.rec
            /\ Fail("notempty") /\ UNCHANGED fs /\ NoFault
         \/ /\ fs["dst"].kind = "dir" /\ fs["dst"].body > 0 /\ fsx.call.rec
            /\ fs' = [fs EXCEPT !["dst"].body = @ - 1]
            /\ commits(0) /\ NoFault
         \/ /\ Present("dst") /\ (fs["dst"].kind = "dir" => fs["dst"].body = 0)
            /\ fs' = [fs EXCEPT !["dst"] = NoEntry]
            /\ commits(1) /\ NoFault
         \/ Breaks("io")

\* The postcondition of each action, read back from the filesystem.
Established ==
  LET c == fsx.call
  IN  CASE c.op = "delete" -> ~Present("dst")
        [] c.op \in {"mkdir", "extract"} -> fs["dst"].kind = "dir"
        [] c.op \in {"create", "replace", "edit", "archive"} -> fs["dst"].id = "new"
        [] c.op = "move" -> Present("dst") /\ ~Present("src")
        [] OTHER -> Present("dst")

FsVerify ==
  /\ Begin("verify")
  /\ \/ Established /\ Next1 /\ UNCHANGED fs /\ NoFault
     \/ ~Established /\ Fail("postcondition") /\ UNCHANGED fs /\ NoFault
     \/ Breaks("io")

-----------------------------------------------------------------------------
(* The end of the call.                                                    *)

\* Mutant: the temporary sibling is removed although the rollback failed.
Cleans_Always == fsx.owned

\* cleanup_primitive_path, and the native removal whose failure only an extraction reports.
Cleans == IF Shizuku THEN fsx.owned /\ fsx.verified
          ELSE fsx.owned /\ (fsx.call.op = "extract" => fsx.verified)

FsCleanup ==
  /\ fsx.phase = "failing" /\ Other
  /\ \/ /\ Cleans /\ Present("pub")
        /\ fs' = [fs EXCEPT !["pub"] = NoEntry]
        /\ fsx' = [fsx EXCEPT !.phase = "tidying"] /\ NoFault
     \/ /\ Cleans /\ Present("pub") /\ Fault /\ UNCHANGED fs
        /\ fsx' = [fsx EXCEPT !.phase = "tidying",
                              !.verified = ~Shizuku /\ fsx.call.op # "extract"]
     \/ /\ ~(Cleans /\ Present("pub")) /\ UNCHANGED fs /\ NoFault
        /\ fsx' = [fsx EXCEPT !.phase = "tidying",
                     !.verified = @ /\ ~(~Shizuku /\ fsx.call.op = "extract" /\ fsx.owned)]

FsDone ==
  /\ fsx.phase = "running" /\ fsx.at > Len(Program)
  /\ fsx' = [fsx EXCEPT !.phase = "tidying"]
  /\ UNCHANGED fs /\ NoFault /\ Other

\* The claim's finish, with cleanup verified or not.  A cancellation that the claim took, and
\* whose cleanup is verified, is settled as cancelled by its caller, beside the driver that
\* settles what the call came to: the first of them is what is reported.
Ends(clean) ==
  \E e \in {fsx.err} \cup (IF fsx.requested /\ clean THEN {"cancelled"} ELSE {}) :
    fsx' = [fsx EXCEPT !.phase = "done", !.verified = clean, !.err = e]

\* cleanup_task_temp, and the report.
FsTidy ==
  /\ fsx.phase = "tidying" /\ Other
  /\ \/ fs' = [fs EXCEPT !["stage"] = NoEntry] /\ Ends(fsx.verified) /\ NoFault
     \/ is_filesystem_task(fsx.call) /\ Fault /\ UNCHANGED fs /\ Ends(FALSE)

-----------------------------------------------------------------------------
(* The environment.                                                        *)

\* LocalExecutionClaims::cancel, of a Task: it waits for the lock, and a committed
\* publication wins.
FsCancel ==
  /\ fsx.phase \notin {"idle", "done"} /\ fsx.by # NoExecutor /\ is_filesystem_task(fsx.call)
  /\ ~fsx.locked /\ ~fsx.requested /\ ~fsx.committed
  /\ fsx' = [fsx EXCEPT !.requested = TRUE]
  /\ UNCHANGED fs /\ NoFault /\ Other

Renamed == \E i \in 1..Len(Program) : Program[i] = "rename" /\ fsx.at > i

\* Another process of the device replaces or removes the entry at the destination.
FsOutside ==
  /\ outside.count < MaxOutside /\ fsx.phase \notin {"idle", "done"}
  /\ \E k \in {"none", "file"} :
       /\ k = "none" => Present("dst")
       /\ fs' = [fs EXCEPT !["dst"] = IF k = "none" THEN NoEntry ELSE Entry("file", "out")]
       /\ outside' = [count |-> outside.count + 1, put |-> k, early |-> ~Renamed]
  /\ UNCHANGED <<fsx, fsHost, fsCap, faults, factsChanged>>

\* Shizuku is lost, or replaced by another instance, before the call starts.
FsFact ==
  /\ factsChanged < MaxFsFacts /\ fsx.phase = "admitted" /\ fsCap.up
  /\ fsCap' \in {[fsCap EXCEPT !.up = FALSE], [fsCap EXCEPT !.generation = @ + 1]}
  /\ factsChanged' = factsChanged + 1
  /\ UNCHANGED <<fs, fsx, fsHost, faults, outside>>

FsInit ==
  /\ \E dst \in {NoEntry, Entry("file", "old"), Entry("dir", "old"), Entry("link", "old")},
        src \in {NoEntry} \cup {Entry(k, "new") : k \in {"file", "dir", "link"}},
        host \in Hosts :
       \E reach \in [{"app", "shizuku"} -> IF host = "apk" THEN {"none", "create", "replace"}
                                           ELSE {"replace"}] :
         /\ fs = [s \in Slots |-> CASE s = "dst" -> dst [] s = "src" -> src [] OTHER -> NoEntry]
         /\ fsHost = [host |-> host, reach |-> reach, was |-> dst.kind]
         /\ fsCap \in [up : BOOLEAN, generation : {1}]
         /\ host = "magisk" => ~fsCap.up
  /\ fsx = NoCall
  /\ faults = 0 /\ outside = [count |-> 0, put |-> "none", early |-> TRUE] /\ factsChanged = 0

FsCallStep ==
  \/ FsStart \/ FsCancelled \/ FsInspect \/ FsRead \/ FsReadRef \/ FsList \/ FsCheck
  \/ FsDownload \/ FsPack \/ FsUnpack
  \/ FsCreate \/ FsFill \/ FsCopyTree \/ FsCopyLink \/ FsCopyStage \/ FsSync
  \/ FsLock \/ FsRecheck \/ FsRename \/ FsIdentity \/ FsRollback \/ FsSyncDir \/ FsDisplace
  \/ FsUnstage \/ FsCommit \/ FsMkdir \/ FsDelete \/ FsVerify \/ FsCleanup \/ FsDone \/ FsTidy

FsNext == FsSubmit \/ FsCallStep \/ FsCancel \/ FsOutside \/ FsFact

FsSpec == FsInit /\ [][FsNext]_fsVars

-----------------------------------------------------------------------------
(* Properties.                                                             *)

Mutates(c) == ~ReadOnly(c)

\* A call without overwrite never displaces an entry: whatever another process puts at the
\* destination between its checks and its rename, only an empty place is taken.
NoClobber ==
  [][fs["dst"] # fs'["dst"] /\ outside' = outside
       /\ ~fsx.call.over /\ fsx.call.op # "delete" => fs["dst"].kind = "none"]_fsVars

\* The destination is a whole entry in every state, so also when the process dies there: no
\* reader ever meets an entry that is still being built.  The one exception is a directory
\* whose removal failed half-way and that the rollback put back.
WholeDestination ==
  Mutates(fsx.call) /\ fsx.call.op # "delete" /\ Present("dst")
    => fs["dst"].body = Pieces \/ fsx.rolled

\* What the call found at its destination, or what another process made of it.
Untouched ==
  /\ fs["dst"].id # "new"
  /\ fs["dst"].kind = "dir" => fs["dst"].body = Pieces
  /\ fs["dst"].kind = "none" => fsHost.was = "none" \/ outside.count > 0

\* A call that is reported as cancelled has committed nothing, and has changed nothing at its
\* destination unless its native publication failed after its rename: the claim, which
\* notes only a publication that returned, still takes a cancellation then.
CancelledUnpublished ==
  fsx.err = "cancelled" => ~fsx.committed /\ (Untouched \/ (~Shizuku /\ Renamed))

\* That every call reported as cancelled has changed nothing is not what the code does.
CancelledTouchesNothing == fsx.err = "cancelled" => Untouched

\* What another process puts at the destination between the check and the exchange is never
\* deleted by a Shizuku replacement, also when the exchange cannot be undone.
ForeignKept ==
  Shizuku /\ fsx.call.op # "delete" /\ outside.put = "file" /\ outside.early /\ fsx.seen # "out"
    => \E s \in Slots : fs[s].id = "out"

\* A Shizuku call that reports verified cleanup has left no temporary sibling behind.
VerifiedLeavesNothing ==
  fsx.phase = "done" /\ Shizuku /\ fsx.verified => fs["pub"].kind = "none"
=============================================================================
