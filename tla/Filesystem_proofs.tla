--------------------------- MODULE Filesystem_proofs ---------------------------
(***************************************************************************)
(* What holds of every call of the filesystem tool, for any size of an     *)
(* entry and any number of faults, replacements by other processes and     *)
(* lost providers.                                                         *)
(*                                                                         *)
(* The steps of an action are a sequence, so what a state owes to the      *)
(* steps before it is said with the set of steps that lie behind the call; *)
(* that the steps come in the order the properties rest on is looked up    *)
(* once, for every action of both providers.                               *)
(***************************************************************************)
EXTENDS Filesystem, SequenceTheorems, TLAPS

FsSteps ==
  {"check", "create", "fill", "sync", "recheck", "rename", "identity", "syncdir", "displace",
   "verify", "stage", "unstage", "lock", "commit", "mkdir", "delete", "look"}

Before(p, i) == {p[j] : j \in {k \in 1..Len(p) : k < i}}

\* The order the properties rest on, for the steps p of a call c.
Ordered(p, c, shz) ==
  \A i \in 1..Len(p) :
    LET B == Before(p, i)
    IN  /\ p[i] \in {"create", "fill", "check", "recheck", "stage", "lock"} => "rename" \notin B
        /\ p[i] = "create" => "fill" \notin B
        /\ p[i] = "check" => "recheck" \notin B
        /\ c.op = "move" => p[i] \notin {"create", "fill"}
        /\ p[i] = "rename" => /\ "rename" \notin B
                              /\ c.op # "move" => "fill" \in B
                              /\ c.op \notin {"mkdir", "delete"}
                              /\ shz => "recheck" \in B /\ i < Len(p) /\ p[i + 1] = "identity"
        /\ p[i] = "identity" => i > 1 /\ p[i - 1] = "rename"
        /\ p[i] \in {"identity", "displace"} => "rename" \in B /\ "recheck" \in B
        /\ p[i] \in {"mkdir", "delete"} => c.op = p[i]
        /\ p[i] = "commit" => ~shz /\ "lock" \in B
        /\ p[i] \in {"lock", "commit"} => /\ ~shz /\ "commit" \notin B
                                         /\ c.op \in {"download", "archive", "extract"}
        /\ p[i] = "verify" /\ c.op = "archive" => IF shz THEN "rename" \in B ELSE "commit" \in B

-----------------------------------------------------------------------------
(* The invariant.                                                          *)

Ids == {"none", "old", "new", "out"}
Entries == [kind : Kinds, id : Ids, body : Nat]
FsCallStates ==
  [phase : {"idle", "admitted", "running", "rollback", "failing", "tidying", "done"},
   call : FsCalls, by : {fsx.by}, at : Nat \ {0}, over : BOOLEAN, seen : Ids, exists : BOOLEAN,
   owned : BOOLEAN, left : {fsx.left}, late : {"ok", "io"}, rolled : BOOLEAN, locked : BOOLEAN,
   requested : BOOLEAN, committed : BOOLEAN, verified : BOOLEAN, err : {fsx.err}]

FsTypeOK ==
  /\ fs \in [Slots -> Entries]
  /\ fsx \in FsCallStates
  /\ outside \in [count : Nat, put : {"none", "file"}, early : BOOLEAN]

\* The steps that lie behind the call.
Behind == Before(Program, fsx.at)

FsEarly == fsx.phase \in {"idle", "admitted"}
FsOver == fsx.phase \in {"failing", "tidying", "done"}

Phases ==
  /\ FsEarly => fsx.at = 1 /\ ~fsx.committed
  /\ fsx.phase = "idle" => outside.put = "none" /\ fsx.call.op = "inspect"
  /\ fsx.phase = "rollback" => "rename" \in Behind /\ fsx.call.over
  /\ fsx.rolled => FsOver

\* What is renamed into place is whole, and so is what an exchange displaced until its
\* removal begins.
Whole ==
  /\ fsx.call.op # "delete" /\ Present("dst") => fs["dst"].body = Pieces \/ fsx.rolled
  /\ "rename" \notin Behind /\ Present("src") => fs["src"].body = Pieces
  /\ fsx.phase = "running" /\ "fill" \in Behind /\ "rename" \notin Behind => fs["pub"].body = Pieces
  /\ At("identity") \/ (fsx.phase = "rollback" /\ fsx.err = "changed")
       => (Present(From) => fs[From].body = Pieces)

\* Without overwrite the last check before a rename found the place empty.
Careful ==
  /\ fsx.over => fsx.call.over
  /\ fsx.exists /\ ~fsx.call.over
       => Shizuku /\ fsx.call.op = "move" /\ "recheck" \notin Behind

\* Whoever asks the claim has not touched the destination yet, or has committed; a Task that
\* is reported as cancelled may also have failed past the rename of a native publication.
Claimed ==
  /\ ~Untouched => IF Shizuku THEN fsx.committed
                   ELSE "rename" \in Behind \/ (fsx.call.op \in {"mkdir", "delete"} /\ ~FsEarly)
  /\ fsx.requested => ~fsx.committed /\ fsx.call.op \in {"download", "archive", "extract"}
  /\ ~Shizuku /\ fsx.phase = "running" /\ "commit" \in Behind => fsx.committed
  /\ Shizuku /\ "rename" \in Behind => fsx.committed
  /\ fsx.phase = "running" /\ "lock" \in Behind /\ "commit" \notin Behind
       => fsx.locked /\ ~fsx.requested
  /\ fsx.err = "cancelled" => /\ FsOver /\ ~fsx.committed
                              /\ Untouched \/ (~Shizuku /\ "rename" \in Behind)

\* Where the entry of another process is that a Shizuku call did not see.
PutBefore == Shizuku /\ fsx.call.op # "delete" /\ outside.put = "file" /\ outside.early
Found ==
  /\ PutBefore /\ "rename" \notin Behind => fs["dst"] = Entry("file", "out")
  /\ PutBefore /\ "rename" \in Behind /\ fsx.seen # "out"
       => \/ At("identity") /\ fsx.exists /\ fs[From].id = "out"
          \/ fsx.phase = "rollback" /\ fsx.err = "changed" /\ fs[From].id = "out"
          \/ FsOver /\ (fs["dst"].id = "out" \/ (fs[From].id = "out" /\ ~fsx.verified))

FsInv == FsTypeOK /\ Phases /\ Whole /\ Careful /\ Claimed /\ Found

-----------------------------------------------------------------------------
(* The order of the steps.                                                 *)

\* Two sequences joined, element by element.
LEMMA Joined ==
  ASSUME NEW s \in Seq(FsSteps), NEW t \in Seq(FsSteps), NEW p \in Seq(FsSteps),
         Len(p) = Len(s) + Len(t), \A i \in 1..Len(s) : p[i] = s[i],
         \A i \in 1..Len(t) : p[Len(s) + i] = t[i]
  PROVE  s \o t = p
<1>1. /\ s \o t \in Seq(FsSteps) /\ Len(s \o t) = Len(s) + Len(t)
      /\ \A i \in 1..Len(s) : (s \o t)[i] = s[i]
      /\ \A i \in 1..Len(t) : (s \o t)[Len(s) + i] = t[i]
  BY ConcatProperties
<1>2. \A i \in 1..Len(p) : i \in 1..Len(s) \/ (i - Len(s) \in 1..Len(t) /\ Len(s) + (i - Len(s)) = i)
  <2>1. Len(s) \in Nat /\ Len(t) \in Nat
    BY LenProperties
  <2> QED
    BY <2>1
<1>3. \A i \in 1..Len(p) : (s \o t)[i] = p[i]
  BY <1>1, <1>2
<1> QED
  BY <1>1, <1>3, SeqEqual

\* Three sequences joined are p.
Joins(a, b, c, p) ==
  /\ Len(p) = Len(a) + Len(b) + Len(c)
  /\ \A i \in 1..Len(a) : p[i] = a[i]
  /\ \A i \in 1..Len(b) : p[Len(a) + i] = b[i]
  /\ \A i \in 1..Len(c) : p[Len(a) + Len(b) + i] = c[i]

\* Three sequences joined.
LEMMA Joined3 ==
  ASSUME NEW a \in Seq(FsSteps), NEW b \in Seq(FsSteps), NEW c \in Seq(FsSteps), NEW p \in Seq(FsSteps),
         Joins(a, b, c, p)
  PROVE  a \o b \o c = p
<1> DEFINE s == a \o b
<1>0. Len(a) \in Nat /\ Len(b) \in Nat
  BY LenProperties
<1>1. /\ s \in Seq(FsSteps) /\ Len(s) = Len(a) + Len(b)
      /\ \A i \in 1..Len(a) : s[i] = a[i]
      /\ \A i \in 1..Len(b) : s[Len(a) + i] = b[i]
  BY ConcatProperties
<1> HIDE DEF s
<1>2. \A i \in 1..Len(s) : i \in 1..Len(a) \/ (i - Len(a) \in 1..Len(b) /\ Len(a) + (i - Len(a)) = i)
  BY <1>0, <1>1
<1>3. ASSUME NEW i \in 1..Len(s) PROVE p[i] = s[i]
  <2>1. CASE i \in 1..Len(a)
    BY <1>1, <2>1 DEF Joins
  <2>2. CASE i - Len(a) \in 1..Len(b) /\ Len(a) + (i - Len(a)) = i
    <3>1. p[Len(a) + (i - Len(a))] = s[Len(a) + (i - Len(a))]
      BY <1>1, <2>2 DEF Joins
    <3> QED
      BY <2>2, <3>1
  <2> QED
    BY <1>2, <2>1, <2>2
<1>4. Len(p) = Len(s) + Len(c) /\ \A i \in 1..Len(c) : p[Len(s) + i] = c[i]
  BY <1>1 DEF Joins
<1>5. s \o c = p
  BY <1>1, <1>3, <1>4, Joined
<1> QED
  BY <1>5 DEF s

\* primitive_publish_reader.
LEMMA ReaderSteps ==
  PublishReader =
    <<"create", "fill", "check", "sync", "recheck", "rename", "identity", "syncdir", "displace">>
<1> DEFINE a == <<"create", "fill", "check", "sync">>
           b == <<"recheck", "rename", "identity", "syncdir", "displace">>
           p == <<"create", "fill", "check", "sync", "recheck", "rename", "identity", "syncdir", "displace">>
<1>1. a \in Seq(FsSteps) /\ b \in Seq(FsSteps) /\ p \in Seq(FsSteps)
  BY DEF FsSteps
<1>2. Len(a) = 4 /\ Len(b) = 5 /\ Len(p) = 9
  OBVIOUS
<1>3. /\ (\A i \in 1..4 : p[i] = a[i])
      /\ (\A i \in 1..5 : p[4 + i] = b[i])
  OBVIOUS
<1>4. /\ Len(p) = Len(a) + Len(b)
      /\ (\A i \in 1..Len(a) : p[i] = a[i])
      /\ (\A i \in 1..Len(b) : p[Len(a) + i] = b[i])
  BY <1>2, <1>3
<1>5. PublishReader = a \o b
  BY DEF PublishReader, PrimitivePublish
<1> HIDE DEF a, b, p
<1>6. a \o b = p
  BY <1>1, <1>4, Joined
<1> QED
  BY <1>5, <1>6 DEF p

\* A directory or a link, published by exchange through the primitives.
LEMMA TreeSteps ==
  <<"create", "fill">> \o PrimitivePublish =
    <<"create", "fill", "recheck", "rename", "identity", "syncdir", "displace">>
<1> DEFINE a == <<"create", "fill">>
           b == <<"recheck", "rename", "identity", "syncdir", "displace">>
           p == <<"create", "fill", "recheck", "rename", "identity", "syncdir", "displace">>
<1>1. a \in Seq(FsSteps) /\ b \in Seq(FsSteps) /\ p \in Seq(FsSteps)
  BY DEF FsSteps
<1>2. Len(a) = 2 /\ Len(b) = 5 /\ Len(p) = 7
  OBVIOUS
<1>3. /\ (\A i \in 1..2 : p[i] = a[i])
      /\ (\A i \in 1..5 : p[2 + i] = b[i])
  OBVIOUS
<1>4. /\ Len(p) = Len(a) + Len(b)
      /\ (\A i \in 1..Len(a) : p[i] = a[i])
      /\ (\A i \in 1..Len(b) : p[Len(a) + i] = b[i])
  BY <1>2, <1>3
<1>5. <<"create", "fill">> \o PrimitivePublish = a \o b
  BY DEF PrimitivePublish
<1> HIDE DEF a, b, p
<1>6. a \o b = p
  BY <1>1, <1>4, Joined
<1> QED
  BY <1>5, <1>6 DEF p

\* The same by the native kernel.
LEMMA NativeTreeSteps ==
  <<"create", "fill">> \o ExchangePublish =
    <<"create", "fill", "recheck", "rename", "identity", "displace", "syncdir">>
<1> DEFINE a == <<"create", "fill">>
           b == <<"recheck", "rename", "identity", "displace", "syncdir">>
           p == <<"create", "fill", "recheck", "rename", "identity", "displace", "syncdir">>
<1>1. a \in Seq(FsSteps) /\ b \in Seq(FsSteps) /\ p \in Seq(FsSteps)
  BY DEF FsSteps
<1>2. Len(a) = 2 /\ Len(b) = 5 /\ Len(p) = 7
  OBVIOUS
<1>3. /\ (\A i \in 1..2 : p[i] = a[i])
      /\ (\A i \in 1..5 : p[2 + i] = b[i])
  OBVIOUS
<1>4. /\ Len(p) = Len(a) + Len(b)
      /\ (\A i \in 1..Len(a) : p[i] = a[i])
      /\ (\A i \in 1..Len(b) : p[Len(a) + i] = b[i])
  BY <1>2, <1>3
<1>5. <<"create", "fill">> \o ExchangePublish = a \o b
  BY DEF ExchangePublish
<1> HIDE DEF a, b, p
<1>6. a \o b = p
  BY <1>1, <1>4, Joined
<1> QED
  BY <1>5, <1>6 DEF p

\* primitive_write.
LEMMA PrimitiveWriteSteps ==
  primitive_write =
    <<"check", "create", "fill", "sync", "recheck", "rename", "identity", "syncdir", "displace",
      "verify">>
<1> DEFINE a == <<"check", "create", "fill", "sync">>
           b == <<"recheck", "rename", "identity", "syncdir", "displace">>
           c == <<"verify">>
           p == <<"check", "create", "fill", "sync", "recheck", "rename", "identity", "syncdir", "displace",
                  "verify">>
<1>1. a \in Seq(FsSteps) /\ b \in Seq(FsSteps) /\ c \in Seq(FsSteps) /\ p \in Seq(FsSteps)
  BY DEF FsSteps
<1>2. Len(a) = 4 /\ Len(b) = 5 /\ Len(c) = 1 /\ Len(p) = 10
  OBVIOUS
<1>3. /\ (\A i \in 1..4 : p[i] = a[i])
      /\ (\A i \in 1..5 : p[4 + i] = b[i])
      /\ (\A i \in 1..1 : p[9 + i] = c[i])
  OBVIOUS
<1>4. Joins(a, b, c, p)
  BY <1>2, <1>3 DEF Joins
<1>5. primitive_write = a \o b \o c
  BY DEF primitive_write, PrimitivePublish
<1> HIDE DEF a, b, c, p
<1>6. a \o b \o c = p
  BY <1>1, <1>4, Joined3
<1> QED
  BY <1>5, <1>6 DEF p

\* primitive_copy_path of a file.
LEMMA PrimitiveFileSteps ==
  <<"check">> \o PublishReader \o <<"verify">> =
    <<"check", "create", "fill", "check", "sync", "recheck", "rename", "identity", "syncdir",
      "displace", "verify">>
<1> DEFINE a == <<"check">>
           b == <<"create", "fill", "check", "sync", "recheck", "rename", "identity", "syncdir", "displace">>
           c == <<"verify">>
           p == <<"check", "create", "fill", "check", "sync", "recheck", "rename", "identity", "syncdir",
                  "displace", "verify">>
<1>1. a \in Seq(FsSteps) /\ b \in Seq(FsSteps) /\ c \in Seq(FsSteps) /\ p \in Seq(FsSteps)
  BY DEF FsSteps
<1>2. Len(a) = 1 /\ Len(b) = 9 /\ Len(c) = 1 /\ Len(p) = 11
  OBVIOUS
<1>3. /\ (\A i \in 1..1 : p[i] = a[i])
      /\ (\A i \in 1..9 : p[1 + i] = b[i])
      /\ (\A i \in 1..1 : p[10 + i] = c[i])
  OBVIOUS
<1>4. Joins(a, b, c, p)
  BY <1>2, <1>3 DEF Joins
<1>5. <<"check">> \o PublishReader \o <<"verify">> = a \o b \o c
  BY ReaderSteps
<1> HIDE DEF a, b, c, p
<1>6. a \o b \o c = p
  BY <1>1, <1>4, Joined3
<1> QED
  BY <1>5, <1>6 DEF p

\* primitive_copy_path of anything else.
LEMMA PrimitiveTreeSteps ==
  <<"check">> \o (<<"create", "fill">> \o PrimitivePublish) \o <<"verify">> =
    <<"check", "create", "fill", "recheck", "rename", "identity", "syncdir", "displace", "verify">>
<1> DEFINE a == <<"check">>
           b == <<"create", "fill", "recheck", "rename", "identity", "syncdir", "displace">>
           c == <<"verify">>
           p == <<"check", "create", "fill", "recheck", "rename", "identity", "syncdir", "displace", "verify">>
<1>1. a \in Seq(FsSteps) /\ b \in Seq(FsSteps) /\ c \in Seq(FsSteps) /\ p \in Seq(FsSteps)
  BY DEF FsSteps
<1>2. Len(a) = 1 /\ Len(b) = 7 /\ Len(c) = 1 /\ Len(p) = 9
  OBVIOUS
<1>3. /\ (\A i \in 1..1 : p[i] = a[i])
      /\ (\A i \in 1..7 : p[1 + i] = b[i])
      /\ (\A i \in 1..1 : p[8 + i] = c[i])
  OBVIOUS
<1>4. Joins(a, b, c, p)
  BY <1>2, <1>3 DEF Joins
<1>5. <<"check">> \o (<<"create", "fill">> \o PrimitivePublish) \o <<"verify">> = a \o b \o c
  BY TreeSteps
<1> HIDE DEF a, b, c, p
<1>6. a \o b \o c = p
  BY <1>1, <1>4, Joined3
<1> QED
  BY <1>5, <1>6 DEF p

\* primitive_manage, a move.
LEMMA PrimitiveMoveSteps ==
  <<"check">> \o PrimitivePublish \o <<"verify">> =
    <<"check", "recheck", "rename", "identity", "syncdir", "displace", "verify">>
<1> DEFINE a == <<"check">>
           b == <<"recheck", "rename", "identity", "syncdir", "displace">>
           c == <<"verify">>
           p == <<"check", "recheck", "rename", "identity", "syncdir", "displace", "verify">>
<1>1. a \in Seq(FsSteps) /\ b \in Seq(FsSteps) /\ c \in Seq(FsSteps) /\ p \in Seq(FsSteps)
  BY DEF FsSteps
<1>2. Len(a) = 1 /\ Len(b) = 5 /\ Len(c) = 1 /\ Len(p) = 7
  OBVIOUS
<1>3. /\ (\A i \in 1..1 : p[i] = a[i])
      /\ (\A i \in 1..5 : p[1 + i] = b[i])
      /\ (\A i \in 1..1 : p[6 + i] = c[i])
  OBVIOUS
<1>4. Joins(a, b, c, p)
  BY <1>2, <1>3 DEF Joins
<1>5. <<"check">> \o PrimitivePublish \o <<"verify">> = a \o b \o c
  BY DEF PrimitivePublish
<1> HIDE DEF a, b, c, p
<1>6. a \o b \o c = p
  BY <1>1, <1>4, Joined3
<1> QED
  BY <1>5, <1>6 DEF p

\* primitive_download and primitive_archive_create.
LEMMA PrimitiveTaskSteps ==
  <<"check", "stage", "check">> \o PublishReader \o <<"verify">> =
    <<"check", "stage", "check", "create", "fill", "check", "sync", "recheck", "rename",
      "identity", "syncdir", "displace", "verify">>
<1> DEFINE a == <<"check", "stage", "check">>
           b == <<"create", "fill", "check", "sync", "recheck", "rename", "identity", "syncdir", "displace">>
           c == <<"verify">>
           p == <<"check", "stage", "check", "create", "fill", "check", "sync", "recheck", "rename",
                  "identity", "syncdir", "displace", "verify">>
<1>1. a \in Seq(FsSteps) /\ b \in Seq(FsSteps) /\ c \in Seq(FsSteps) /\ p \in Seq(FsSteps)
  BY DEF FsSteps
<1>2. Len(a) = 3 /\ Len(b) = 9 /\ Len(c) = 1 /\ Len(p) = 13
  OBVIOUS
<1>3. /\ (\A i \in 1..3 : p[i] = a[i])
      /\ (\A i \in 1..9 : p[3 + i] = b[i])
      /\ (\A i \in 1..1 : p[12 + i] = c[i])
  OBVIOUS
<1>4. Joins(a, b, c, p)
  BY <1>2, <1>3 DEF Joins
<1>5. <<"check", "stage", "check">> \o PublishReader \o <<"verify">> = a \o b \o c
  BY ReaderSteps
<1> HIDE DEF a, b, c, p
<1>6. a \o b \o c = p
  BY <1>1, <1>4, Joined3
<1> QED
  BY <1>5, <1>6 DEF p

\* primitive_archive_extract.
LEMMA PrimitiveExtractSteps ==
  primitive_archive_extract =
    <<"check", "stage", "create", "fill", "recheck", "rename", "identity", "syncdir", "displace",
      "verify">>
<1> DEFINE a == <<"check", "stage", "create", "fill">>
           b == <<"recheck", "rename", "identity", "syncdir", "displace">>
           c == <<"verify">>
           p == <<"check", "stage", "create", "fill", "recheck", "rename", "identity", "syncdir", "displace",
                  "verify">>
<1>1. a \in Seq(FsSteps) /\ b \in Seq(FsSteps) /\ c \in Seq(FsSteps) /\ p \in Seq(FsSteps)
  BY DEF FsSteps
<1>2. Len(a) = 4 /\ Len(b) = 5 /\ Len(c) = 1 /\ Len(p) = 10
  OBVIOUS
<1>3. /\ (\A i \in 1..4 : p[i] = a[i])
      /\ (\A i \in 1..5 : p[4 + i] = b[i])
      /\ (\A i \in 1..1 : p[9 + i] = c[i])
  OBVIOUS
<1>4. Joins(a, b, c, p)
  BY <1>2, <1>3 DEF Joins
<1>5. primitive_archive_extract = a \o b \o c
  BY DEF primitive_archive_extract, PrimitivePublish
<1> HIDE DEF a, b, c, p
<1>6. a \o b \o c = p
  BY <1>1, <1>4, Joined3
<1> QED
  BY <1>5, <1>6 DEF p

\* copy_path of a file.
LEMMA FileSteps ==
  <<"check">> \o PublishFile \o <<"verify">> =
    <<"check", "check", "create", "fill", "sync", "rename", "syncdir", "verify">>
<1> DEFINE a == <<"check">>
           b == <<"check", "create", "fill", "sync", "rename", "syncdir">>
           c == <<"verify">>
           p == <<"check", "check", "create", "fill", "sync", "rename", "syncdir", "verify">>
<1>1. a \in Seq(FsSteps) /\ b \in Seq(FsSteps) /\ c \in Seq(FsSteps) /\ p \in Seq(FsSteps)
  BY DEF FsSteps
<1>2. Len(a) = 1 /\ Len(b) = 6 /\ Len(c) = 1 /\ Len(p) = 8
  OBVIOUS
<1>3. /\ (\A i \in 1..1 : p[i] = a[i])
      /\ (\A i \in 1..6 : p[1 + i] = b[i])
      /\ (\A i \in 1..1 : p[7 + i] = c[i])
  OBVIOUS
<1>4. Joins(a, b, c, p)
  BY <1>2, <1>3 DEF Joins
<1>5. <<"check">> \o PublishFile \o <<"verify">> = a \o b \o c
  BY DEF PublishFile
<1> HIDE DEF a, b, c, p
<1>6. a \o b \o c = p
  BY <1>1, <1>4, Joined3
<1> QED
  BY <1>5, <1>6 DEF p

\* copy_path of anything else.
LEMMA CopyTreeSteps ==
  <<"check">> \o (<<"create", "fill">> \o ExchangePublish) \o <<"verify">> =
    <<"check", "create", "fill", "recheck", "rename", "identity", "displace", "syncdir", "verify">>
<1> DEFINE a == <<"check">>
           b == <<"create", "fill", "recheck", "rename", "identity", "displace", "syncdir">>
           c == <<"verify">>
           p == <<"check", "create", "fill", "recheck", "rename", "identity", "displace", "syncdir", "verify">>
<1>1. a \in Seq(FsSteps) /\ b \in Seq(FsSteps) /\ c \in Seq(FsSteps) /\ p \in Seq(FsSteps)
  BY DEF FsSteps
<1>2. Len(a) = 1 /\ Len(b) = 7 /\ Len(c) = 1 /\ Len(p) = 9
  OBVIOUS
<1>3. /\ (\A i \in 1..1 : p[i] = a[i])
      /\ (\A i \in 1..7 : p[1 + i] = b[i])
      /\ (\A i \in 1..1 : p[8 + i] = c[i])
  OBVIOUS
<1>4. Joins(a, b, c, p)
  BY <1>2, <1>3 DEF Joins
<1>5. <<"check">> \o (<<"create", "fill">> \o ExchangePublish) \o <<"verify">> = a \o b \o c
  BY NativeTreeSteps
<1> HIDE DEF a, b, c, p
<1>6. a \o b \o c = p
  BY <1>1, <1>4, Joined3
<1> QED
  BY <1>5, <1>6 DEF p

\* manage, a move.
LEMMA MoveSteps ==
  <<"check">> \o ExchangePublish \o <<"verify">> =
    <<"check", "recheck", "rename", "identity", "displace", "syncdir", "verify">>
<1> DEFINE a == <<"check">>
           b == <<"recheck", "rename", "identity", "displace", "syncdir">>
           c == <<"verify">>
           p == <<"check", "recheck", "rename", "identity", "displace", "syncdir", "verify">>
<1>1. a \in Seq(FsSteps) /\ b \in Seq(FsSteps) /\ c \in Seq(FsSteps) /\ p \in Seq(FsSteps)
  BY DEF FsSteps
<1>2. Len(a) = 1 /\ Len(b) = 5 /\ Len(c) = 1 /\ Len(p) = 7
  OBVIOUS
<1>3. /\ (\A i \in 1..1 : p[i] = a[i])
      /\ (\A i \in 1..5 : p[1 + i] = b[i])
      /\ (\A i \in 1..1 : p[6 + i] = c[i])
  OBVIOUS
<1>4. Joins(a, b, c, p)
  BY <1>2, <1>3 DEF Joins
<1>5. <<"check">> \o ExchangePublish \o <<"verify">> = a \o b \o c
  BY DEF ExchangePublish
<1> HIDE DEF a, b, c, p
<1>6. a \o b \o c = p
  BY <1>1, <1>4, Joined3
<1> QED
  BY <1>5, <1>6 DEF p

\* download_inner.
LEMMA DownloadSteps ==
  download_inner =
    <<"check", "stage", "lock", "check", "create", "fill", "sync", "rename", "syncdir", "unstage",
      "commit", "verify">>
<1> DEFINE a == <<"check", "stage", "lock">>
           b == <<"check", "create", "fill", "sync", "rename", "syncdir">>
           c == <<"unstage", "commit", "verify">>
           p == <<"check", "stage", "lock", "check", "create", "fill", "sync", "rename", "syncdir",
                  "unstage", "commit", "verify">>
<1>1. a \in Seq(FsSteps) /\ b \in Seq(FsSteps) /\ c \in Seq(FsSteps) /\ p \in Seq(FsSteps)
  BY DEF FsSteps
<1>2. Len(a) = 3 /\ Len(b) = 6 /\ Len(c) = 3 /\ Len(p) = 12
  OBVIOUS
<1>3. /\ (\A i \in 1..3 : p[i] = a[i])
      /\ (\A i \in 1..6 : p[3 + i] = b[i])
      /\ (\A i \in 1..3 : p[9 + i] = c[i])
  OBVIOUS
<1>4. Joins(a, b, c, p)
  BY <1>2, <1>3 DEF Joins
<1>5. download_inner = a \o b \o c
  BY DEF download_inner, PublishFile
<1> HIDE DEF a, b, c, p
<1>6. a \o b \o c = p
  BY <1>1, <1>4, Joined3
<1> QED
  BY <1>5, <1>6 DEF p

\* archive_create_inner.
LEMMA ArchiveSteps ==
  archive_create_inner =
    <<"stage", "lock", "check", "create", "fill", "sync", "rename", "syncdir", "unstage",
      "commit", "verify">>
<1> DEFINE a == <<"stage", "lock">>
           b == <<"check", "create", "fill", "sync", "rename", "syncdir">>
           c == <<"unstage", "commit", "verify">>
           p == <<"stage", "lock", "check", "create", "fill", "sync", "rename", "syncdir", "unstage",
                  "commit", "verify">>
<1>1. a \in Seq(FsSteps) /\ b \in Seq(FsSteps) /\ c \in Seq(FsSteps) /\ p \in Seq(FsSteps)
  BY DEF FsSteps
<1>2. Len(a) = 2 /\ Len(b) = 6 /\ Len(c) = 3 /\ Len(p) = 11
  OBVIOUS
<1>3. /\ (\A i \in 1..2 : p[i] = a[i])
      /\ (\A i \in 1..6 : p[2 + i] = b[i])
      /\ (\A i \in 1..3 : p[8 + i] = c[i])
  OBVIOUS
<1>4. Joins(a, b, c, p)
  BY <1>2, <1>3 DEF Joins
<1>5. archive_create_inner = a \o b \o c
  BY DEF archive_create_inner, PublishFile
<1> HIDE DEF a, b, c, p
<1>6. a \o b \o c = p
  BY <1>1, <1>4, Joined3
<1> QED
  BY <1>5, <1>6 DEF p

\* archive_extract_inner.
LEMMA ExtractSteps ==
  archive_extract_inner =
    <<"stage", "check", "create", "fill", "lock", "recheck", "rename", "identity", "displace",
      "syncdir", "commit", "verify">>
<1> DEFINE a == <<"stage", "check", "create", "fill", "lock">>
           b == <<"recheck", "rename", "identity", "displace", "syncdir">>
           c == <<"commit", "verify">>
           p == <<"stage", "check", "create", "fill", "lock", "recheck", "rename", "identity", "displace",
                  "syncdir", "commit", "verify">>
<1>1. a \in Seq(FsSteps) /\ b \in Seq(FsSteps) /\ c \in Seq(FsSteps) /\ p \in Seq(FsSteps)
  BY DEF FsSteps
<1>2. Len(a) = 5 /\ Len(b) = 5 /\ Len(c) = 2 /\ Len(p) = 12
  OBVIOUS
<1>3. /\ (\A i \in 1..5 : p[i] = a[i])
      /\ (\A i \in 1..5 : p[5 + i] = b[i])
      /\ (\A i \in 1..2 : p[10 + i] = c[i])
  OBVIOUS
<1>4. Joins(a, b, c, p)
  BY <1>2, <1>3 DEF Joins
<1>5. archive_extract_inner = a \o b \o c
  BY DEF archive_extract_inner, ExchangePublish
<1> HIDE DEF a, b, c, p
<1>6. a \o b \o c = p
  BY <1>1, <1>4, Joined3
<1> QED
  BY <1>5, <1>6 DEF p
\* primitive_write.
LEMMA PrimitiveWriteOrdered ==
  ASSUME NEW c \in FsCalls, c.op \in {"create", "replace", "edit"},
         NEW p, p = <<"check", "create", "fill", "sync", "recheck", "rename", "identity", "syncdir",
            "displace", "verify">>
  PROVE  p \in Seq(FsSteps) /\ Ordered(p, c, TRUE)
<1>1. p \in Seq(FsSteps) /\ Len(p) = 10
  BY DEF FsSteps
<1>2. Ordered(p, c, TRUE)
  BY <1>1 DEF Ordered, Before
<1> QED
  BY <1>1, <1>2

\* primitive_copy_path of a file.
LEMMA PrimitiveFileOrdered ==
  ASSUME NEW c \in FsCalls, c.op \in {"copy"},
         NEW p, p = <<"check", "create", "fill", "check", "sync", "recheck", "rename", "identity",
            "syncdir", "displace", "verify">>
  PROVE  p \in Seq(FsSteps) /\ Ordered(p, c, TRUE)
<1>1. p \in Seq(FsSteps) /\ Len(p) = 11
  BY DEF FsSteps
<1>2. Ordered(p, c, TRUE)
  BY <1>1 DEF Ordered, Before
<1> QED
  BY <1>1, <1>2

\* primitive_copy_path of a directory or a link.
LEMMA PrimitiveTreeOrdered ==
  ASSUME NEW c \in FsCalls, c.op \in {"copy"},
         NEW p, p = <<"check", "create", "fill", "recheck", "rename", "identity", "syncdir", "displace",
            "verify">>
  PROVE  p \in Seq(FsSteps) /\ Ordered(p, c, TRUE)
<1>1. p \in Seq(FsSteps) /\ Len(p) = 9
  BY DEF FsSteps
<1>2. Ordered(p, c, TRUE)
  BY <1>1 DEF Ordered, Before
<1> QED
  BY <1>1, <1>2

\* primitive_manage of a move.
LEMMA PrimitiveMoveOrdered ==
  ASSUME NEW c \in FsCalls, c.op \in {"move"},
         NEW p, p = <<"check", "recheck", "rename", "identity", "syncdir", "displace", "verify">>
  PROVE  p \in Seq(FsSteps) /\ Ordered(p, c, TRUE)
<1>1. p \in Seq(FsSteps) /\ Len(p) = 7
  BY DEF FsSteps
<1>2. Ordered(p, c, TRUE)
  BY <1>1 DEF Ordered, Before
<1> QED
  BY <1>1, <1>2

\* primitive_download and primitive_archive_create.
LEMMA PrimitiveTaskOrdered ==
  ASSUME NEW c \in FsCalls, c.op \in {"download", "archive"},
         NEW p, p = <<"check", "stage", "check", "create", "fill", "check", "sync", "recheck", "rename",
            "identity", "syncdir", "displace", "verify">>
  PROVE  p \in Seq(FsSteps) /\ Ordered(p, c, TRUE)
<1>1. p \in Seq(FsSteps) /\ Len(p) = 13
  BY DEF FsSteps
<1>2. Ordered(p, c, TRUE)
  BY <1>1 DEF Ordered, Before
<1> QED
  BY <1>1, <1>2

\* primitive_archive_extract.
LEMMA PrimitiveExtractOrdered ==
  ASSUME NEW c \in FsCalls, c.op \in {"extract"},
         NEW p, p = <<"check", "stage", "create", "fill", "recheck", "rename", "identity", "syncdir",
            "displace", "verify">>
  PROVE  p \in Seq(FsSteps) /\ Ordered(p, c, TRUE)
<1>1. p \in Seq(FsSteps) /\ Len(p) = 10
  BY DEF FsSteps
<1>2. Ordered(p, c, TRUE)
  BY <1>1 DEF Ordered, Before
<1> QED
  BY <1>1, <1>2

\* write.
LEMMA WriteOrdered ==
  ASSUME NEW c \in FsCalls, c.op \in {"create", "replace", "edit"},
         NEW p, p = <<"check", "create", "fill", "sync", "rename", "syncdir", "verify">>
  PROVE  p \in Seq(FsSteps) /\ Ordered(p, c, FALSE)
<1>1. p \in Seq(FsSteps) /\ Len(p) = 7
  BY DEF FsSteps
<1>2. Ordered(p, c, FALSE)
  BY <1>1 DEF Ordered, Before
<1> QED
  BY <1>1, <1>2

\* copy_path of a file.
LEMMA FileOrdered ==
  ASSUME NEW c \in FsCalls, c.op \in {"copy"},
         NEW p, p = <<"check", "check", "create", "fill", "sync", "rename", "syncdir", "verify">>
  PROVE  p \in Seq(FsSteps) /\ Ordered(p, c, FALSE)
<1>1. p \in Seq(FsSteps) /\ Len(p) = 8
  BY DEF FsSteps
<1>2. Ordered(p, c, FALSE)
  BY <1>1 DEF Ordered, Before
<1> QED
  BY <1>1, <1>2

\* copy_path of a directory or a link.
LEMMA CopyTreeOrdered ==
  ASSUME NEW c \in FsCalls, c.op \in {"copy"},
         NEW p, p = <<"check", "create", "fill", "recheck", "rename", "identity", "displace", "syncdir",
            "verify">>
  PROVE  p \in Seq(FsSteps) /\ Ordered(p, c, FALSE)
<1>1. p \in Seq(FsSteps) /\ Len(p) = 9
  BY DEF FsSteps
<1>2. Ordered(p, c, FALSE)
  BY <1>1 DEF Ordered, Before
<1> QED
  BY <1>1, <1>2

\* manage of a move.
LEMMA MoveOrdered ==
  ASSUME NEW c \in FsCalls, c.op \in {"move"},
         NEW p, p = <<"check", "recheck", "rename", "identity", "displace", "syncdir", "verify">>
  PROVE  p \in Seq(FsSteps) /\ Ordered(p, c, FALSE)
<1>1. p \in Seq(FsSteps) /\ Len(p) = 7
  BY DEF FsSteps
<1>2. Ordered(p, c, FALSE)
  BY <1>1 DEF Ordered, Before
<1> QED
  BY <1>1, <1>2

\* download_inner.
LEMMA DownloadOrdered ==
  ASSUME NEW c \in FsCalls, c.op \in {"download"},
         NEW p, p = <<"check", "stage", "lock", "check", "create", "fill", "sync", "rename", "syncdir",
            "unstage", "commit", "verify">>
  PROVE  p \in Seq(FsSteps) /\ Ordered(p, c, FALSE)
<1>1. p \in Seq(FsSteps) /\ Len(p) = 12
  BY DEF FsSteps
<1>2. Ordered(p, c, FALSE)
  BY <1>1 DEF Ordered, Before
<1> QED
  BY <1>1, <1>2

\* archive_create_inner.
LEMMA ArchiveOrdered ==
  ASSUME NEW c \in FsCalls, c.op \in {"archive"},
         NEW p, p = <<"stage", "lock", "check", "create", "fill", "sync", "rename", "syncdir", "unstage",
            "commit", "verify">>
  PROVE  p \in Seq(FsSteps) /\ Ordered(p, c, FALSE)
<1>1. p \in Seq(FsSteps) /\ Len(p) = 11
  BY DEF FsSteps
<1>2. Ordered(p, c, FALSE)
  BY <1>1 DEF Ordered, Before
<1> QED
  BY <1>1, <1>2

\* archive_extract_inner.
LEMMA ExtractOrdered ==
  ASSUME NEW c \in FsCalls, c.op \in {"extract"},
         NEW p, p = <<"stage", "check", "create", "fill", "lock", "recheck", "rename", "identity",
            "displace", "syncdir", "commit", "verify">>
  PROVE  p \in Seq(FsSteps) /\ Ordered(p, c, FALSE)
<1>1. p \in Seq(FsSteps) /\ Len(p) = 12
  BY DEF FsSteps
<1>2. Ordered(p, c, FALSE)
  BY <1>1 DEF Ordered, Before
<1> QED
  BY <1>1, <1>2

\* mkdir, of both providers.
LEMMA MkdirOrdered ==
  ASSUME NEW c \in FsCalls, c.op \in {"mkdir"}, NEW shz \in BOOLEAN,
         NEW p, p = <<"mkdir", "verify">>
  PROVE  p \in Seq(FsSteps) /\ Ordered(p, c, shz)
<1>1. p \in Seq(FsSteps) /\ Len(p) = 2
  BY DEF FsSteps
<1>2. Ordered(p, c, shz)
  BY <1>1 DEF Ordered, Before
<1> QED
  BY <1>1, <1>2

\* delete, of both providers.
LEMMA DeleteOrdered ==
  ASSUME NEW c \in FsCalls, c.op \in {"delete"}, NEW shz \in BOOLEAN,
         NEW p, p = <<"delete", "verify">>
  PROVE  p \in Seq(FsSteps) /\ Ordered(p, c, shz)
<1>1. p \in Seq(FsSteps) /\ Len(p) = 2
  BY DEF FsSteps
<1>2. Ordered(p, c, shz)
  BY <1>1 DEF Ordered, Before
<1> QED
  BY <1>1, <1>2

\* the read-only actions, of both providers.
LEMMA LookOrdered ==
  ASSUME NEW c \in FsCalls, c.op \in {"inspect", "read", "data_ref", "list"}, NEW shz \in BOOLEAN,
         NEW p, p = <<"look">>
  PROVE  p \in Seq(FsSteps) /\ Ordered(p, c, shz)
<1>1. p \in Seq(FsSteps) /\ Len(p) = 1
  BY DEF FsSteps
<1>2. Ordered(p, c, shz)
  BY <1>1 DEF Ordered, Before
<1> QED
  BY <1>1, <1>2

\* The operations a call may name.
FsOps == {"inspect", "read", "data_ref", "list", "create", "replace", "edit", "mkdir", "delete",
          "copy", "move", "download", "archive", "extract"}

\* The fields of a call.
LEMMA CallFields ==
  ASSUME NEW c \in FsCalls
  PROVE  /\ c.op \in FsOps /\ c.kind \in {"file", "dir", "link"}
         /\ c.over \in BOOLEAN /\ c.rec \in BOOLEAN
<1>0. ASSUME NEW op, NEW k, NEW over, NEW rec, NEW ns, c = Call(op, k, over, rec, ns)
      PROVE  c.op = op /\ c.kind = k /\ c.over = over /\ c.rec = rec
  BY <1>0 DEF Call
<1>1. CASE c \in ReadCalls
  <2>1. PICK op \in {"inspect", "read", "data_ref", "list"}, ns \in {"path", "shared", "content"} :
          c = Call(op, "file", FALSE, FALSE, ns)
    BY <1>1 DEF ReadCalls, Call
  <2> QED
    BY <1>0, <2>1 DEF FsOps
<1>2. CASE c \in WriteCalls
  <2>1. PICK op \in {"create", "replace", "edit"}, ns \in {"path", "shared", "content"} :
          c = Call(op, "file", op # "create", FALSE, ns)
    BY <1>2 DEF WriteCalls, Call
  <2> QED
    BY <1>0, <2>1 DEF FsOps
<1>3. CASE c \in ManageCalls
  <2>1. CASE \E rec \in BOOLEAN : c = Call("mkdir", "dir", FALSE, rec, "path")
    BY <1>0, <2>1 DEF FsOps
  <2>2. CASE \E rec \in BOOLEAN : c = Call("delete", "file", FALSE, rec, "path")
    BY <1>0, <2>2 DEF FsOps
  <2>3. CASE \E op \in {"copy", "move"}, k \in {"file", "dir", "link"}, over \in BOOLEAN,
                rec \in BOOLEAN : c = Call(op, k, over, rec, "path")
    BY <1>0, <2>3 DEF FsOps
  <2>4. CASE c = Call("move", "file", TRUE, FALSE, "mixed")
    BY <1>0, <2>4 DEF FsOps
  <2> QED
    BY <1>3, <2>1, <2>2, <2>3, <2>4 DEF ManageCalls, Call
<1>4. CASE c \in TaskCalls
  <2>1. PICK op \in {"download", "archive", "extract"}, over \in BOOLEAN :
          c = Call(op, IF op = "extract" THEN "dir" ELSE "file", over, FALSE, "path")
    BY <1>4 DEF TaskCalls, Call
  <2> QED
    BY <1>0, <2>1 DEF FsOps
<1> QED
  BY <1>1, <1>2, <1>3, <1>4 DEF FsCalls

\* The steps of every call through the Shizuku primitives are in order.
LEMMA ShizukuOrdered ==
  ASSUME NEW c \in FsCalls
  PROVE  /\ execute_shizuku_filesystem(c) \in Seq(FsSteps)
         /\ Ordered(execute_shizuku_filesystem(c), c, TRUE)
<1>0. c.op \in FsOps
  BY CallFields
<1>1. CASE c.op \in {"create", "replace", "edit"}
  <2>1. execute_shizuku_filesystem(c) = primitive_write
    BY <1>1 DEF execute_shizuku_filesystem
  <2> QED
    BY <1>1, <2>1, PrimitiveWriteSteps, PrimitiveWriteOrdered
<1>2. CASE c.op = "copy" /\ c.kind = "file"
  <2>1. execute_shizuku_filesystem(c) = <<"check">> \o PublishReader \o <<"verify">>
    BY <1>2 DEF execute_shizuku_filesystem, primitive_manage, primitive_copy_path
  <2> QED
    BY <1>2, <2>1, PrimitiveFileSteps, PrimitiveFileOrdered
<1>3. CASE c.op = "copy" /\ c.kind # "file"
  <2>1. execute_shizuku_filesystem(c)
          = <<"check">> \o (<<"create", "fill">> \o PrimitivePublish) \o <<"verify">>
    BY <1>3 DEF execute_shizuku_filesystem, primitive_manage, primitive_copy_path
  <2> QED
    BY <1>3, <2>1, PrimitiveTreeSteps, PrimitiveTreeOrdered
<1>4. CASE c.op = "move"
  <2>1. execute_shizuku_filesystem(c) = <<"check">> \o PrimitivePublish \o <<"verify">>
    BY <1>4 DEF execute_shizuku_filesystem, primitive_manage
  <2> QED
    BY <1>4, <2>1, PrimitiveMoveSteps, PrimitiveMoveOrdered
<1>5. CASE c.op \in {"download", "archive"}
  <2>1. execute_shizuku_filesystem(c) = <<"check", "stage", "check">> \o PublishReader \o <<"verify">>
    BY <1>5 DEF execute_shizuku_filesystem, primitive_download, primitive_archive_create
  <2> QED
    BY <1>5, <2>1, PrimitiveTaskSteps, PrimitiveTaskOrdered
<1>6. CASE c.op = "extract"
  <2>1. execute_shizuku_filesystem(c) = primitive_archive_extract
    BY <1>6 DEF execute_shizuku_filesystem
  <2> QED
    BY <1>6, <2>1, PrimitiveExtractSteps, PrimitiveExtractOrdered
<1>7. CASE c.op = "mkdir"
  <2>1. execute_shizuku_filesystem(c) = <<"mkdir", "verify">>
    BY <1>7 DEF execute_shizuku_filesystem, primitive_manage
  <2> QED
    BY <1>7, <2>1, MkdirOrdered
<1>8. CASE c.op = "delete"
  <2>1. execute_shizuku_filesystem(c) = <<"delete", "verify">>
    BY <1>8 DEF execute_shizuku_filesystem, primitive_manage
  <2> QED
    BY <1>8, <2>1, DeleteOrdered
<1>9. CASE c.op \in {"inspect", "read", "data_ref", "list"}
  <2>1. execute_shizuku_filesystem(c) = <<"look">>
    BY <1>9 DEF execute_shizuku_filesystem
  <2> QED
    BY <1>9, <2>1, LookOrdered
<1> QED
  BY <1>0, <1>1, <1>2, <1>3, <1>4, <1>5, <1>6, <1>7, <1>8, <1>9 DEF FsOps

\* So are the steps of every call of the native kernel.
LEMMA NativeOrdered ==
  ASSUME NEW c \in FsCalls
  PROVE  /\ execute_inner(c) \in Seq(FsSteps)
         /\ Ordered(execute_inner(c), c, FALSE)
<1>0. c.op \in FsOps
  BY CallFields
<1>1. CASE c.op \in {"create", "replace", "edit"}
  <2>1. execute_inner(c) = <<"check", "create", "fill", "sync", "rename", "syncdir", "verify">>
    BY <1>1 DEF execute_inner, write
  <2> QED
    BY <1>1, <2>1, WriteOrdered
<1>2. CASE c.op = "copy" /\ c.kind = "file"
  <2>1. execute_inner(c) = <<"check">> \o PublishFile \o <<"verify">>
    BY <1>2 DEF execute_inner, manage, copy_path
  <2> QED
    BY <1>2, <2>1, FileSteps, FileOrdered
<1>3. CASE c.op = "copy" /\ c.kind # "file"
  <2>1. execute_inner(c) = <<"check">> \o (<<"create", "fill">> \o ExchangePublish) \o <<"verify">>
    BY <1>3 DEF execute_inner, manage, copy_path
  <2> QED
    BY <1>3, <2>1, CopyTreeSteps, CopyTreeOrdered
<1>4. CASE c.op = "move"
  <2>1. execute_inner(c) = <<"check">> \o ExchangePublish \o <<"verify">>
    BY <1>4 DEF execute_inner, manage
  <2> QED
    BY <1>4, <2>1, MoveSteps, MoveOrdered
<1>5. CASE c.op = "download"
  <2>1. execute_inner(c) = download_inner
    BY <1>5 DEF execute_inner
  <2> QED
    BY <1>5, <2>1, DownloadSteps, DownloadOrdered
<1>10. CASE c.op = "archive"
  <2>1. execute_inner(c) = archive_create_inner
    BY <1>10 DEF execute_inner
  <2> QED
    BY <1>10, <2>1, ArchiveSteps, ArchiveOrdered
<1>6. CASE c.op = "extract"
  <2>1. execute_inner(c) = archive_extract_inner
    BY <1>6 DEF execute_inner
  <2> QED
    BY <1>6, <2>1, ExtractSteps, ExtractOrdered
<1>7. CASE c.op = "mkdir"
  <2>1. execute_inner(c) = <<"mkdir", "verify">>
    BY <1>7 DEF execute_inner, manage
  <2> QED
    BY <1>7, <2>1, MkdirOrdered
<1>8. CASE c.op = "delete"
  <2>1. execute_inner(c) = <<"delete", "verify">>
    BY <1>8 DEF execute_inner, manage
  <2> QED
    BY <1>8, <2>1, DeleteOrdered
<1>9. CASE c.op \in {"inspect", "read", "data_ref", "list"}
  <2>1. execute_inner(c) = <<"look">>
    BY <1>9 DEF execute_inner
  <2> QED
    BY <1>9, <2>1, LookOrdered
<1> QED
  BY <1>0, <1>1, <1>2, <1>3, <1>4, <1>5, <1>6, <1>7, <1>8, <1>9, <1>10 DEF FsOps

\* The steps of the call that is in flight.
LEMMA ProgramOrdered ==
  ASSUME FsTypeOK
  PROVE  Program \in Seq(FsSteps) /\ Ordered(Program, fsx.call, Shizuku)
<1>1. fsx.call \in FsCalls
  BY DEF FsTypeOK, FsCallStates
<1>2. CASE Shizuku
  BY <1>1, <1>2, ShizukuOrdered DEF Program
<1>3. CASE ~Shizuku
  <2>1. Shizuku = FALSE
    BY <1>3 DEF Shizuku
  <2> QED
    BY <1>1, <2>1, NativeOrdered DEF Program
<1> QED
  BY <1>2, <1>3

-----------------------------------------------------------------------------
(* The steps behind the call.                                              *)

\* What the order says of the step the call is at.
Rules(s) ==
  /\ s \in {"create", "fill", "check", "recheck", "stage", "lock"} => "rename" \notin Behind
  /\ s = "create" => "fill" \notin Behind
  /\ s = "check" => "recheck" \notin Behind
  /\ fsx.call.op = "move" => s \notin {"create", "fill"}
  /\ s = "rename" => /\ "rename" \notin Behind
                     /\ fsx.call.op # "move" => "fill" \in Behind
                     /\ fsx.call.op \notin {"mkdir", "delete"}
                     /\ Shizuku => "recheck" \in Behind
  /\ s \in {"identity", "displace"} => "rename" \in Behind /\ "recheck" \in Behind
  /\ s \in {"mkdir", "delete"} => fsx.call.op = s
  /\ s = "commit" => ~Shizuku /\ "lock" \in Behind
  /\ s \in {"lock", "commit"} => /\ ~Shizuku /\ "commit" \notin Behind
                                /\ fsx.call.op \in {"download", "archive", "extract"}
  /\ s = "verify" /\ fsx.call.op = "archive"
       => IF Shizuku THEN "rename" \in Behind ELSE "commit" \in Behind

\* The step the call is at is one of its program, in order.
LEMMA StepRules ==
  ASSUME FsTypeOK, NEW s, At(s)
  PROVE  fsx.at \in 1..Len(Program) /\ Rules(s)
<1>1. fsx.at \in 1..Len(Program) /\ Program[fsx.at] = s
  <2>1. fsx.at \in Nat \ {0}
    BY DEF FsTypeOK, FsCallStates
  <2>2. Len(Program) \in Nat
    BY ProgramOrdered, LenProperties
  <2> QED
    BY <2>1, <2>2 DEF At
<1>2. Ordered(Program, fsx.call, Shizuku)
  BY ProgramOrdered
<1> QED
  BY <1>1, <1>2 DEF Ordered, Rules, Behind

\* A step of the call leaves its program and its provider alone.
LEMMA SameProgram ==
  ASSUME fsx'.call = fsx.call, fsx'.by = fsx.by
  PROVE  Program' = Program /\ (Shizuku' <=> Shizuku) /\ From' = From
BY DEF Program, Shizuku, From

\* The steps behind the call only depend on where it is.
LEMMA SameBehind ==
  ASSUME fsx'.call = fsx.call, fsx'.by = fsx.by, fsx'.at = fsx.at
  PROVE  Behind' = Behind
<1>1. Program' = Program
  BY SameProgram
<1> QED
  BY <1>1 DEF Behind, Before

\* A step that is taken lies behind the call, and only a rename leads to the check of the
\* displaced entry.
LEMMA NextBehind ==
  ASSUME FsTypeOK, NEW s, At(s), fsx'.call = fsx.call, fsx'.by = fsx.by, fsx'.at = fsx.at + 1
  PROVE  /\ Behind' = Behind \cup {s}
         /\ At("identity")' => s = "rename"
         /\ s = "rename" /\ Shizuku /\ fsx'.phase = "running" => At("identity")'
<1>1. fsx.at \in 1..Len(Program) /\ Program[fsx.at] = s /\ Len(Program) \in Nat
  BY StepRules, ProgramOrdered, LenProperties DEF At
<1>2. Program' = Program
  BY SameProgram
<1>3. Behind' = Behind \cup {s}
  <2>1. {k \in 1..Len(Program) : k < fsx.at + 1} = {k \in 1..Len(Program) : k < fsx.at} \cup {fsx.at}
    BY <1>1
  <2>2. Behind' = {Program[j] : j \in {k \in 1..Len(Program) : k < fsx.at + 1}}
    BY <1>2 DEF Behind, Before
  <2>3. Behind = {Program[j] : j \in {k \in 1..Len(Program) : k < fsx.at}}
    BY DEF Behind, Before
  <2> QED
    BY <1>1, <2>1, <2>2, <2>3
<1>4. Ordered(Program, fsx.call, Shizuku)
  BY ProgramOrdered
<1>5. ASSUME At("identity")' PROVE s = "rename"
  <2>1. fsx.at + 1 \in 1..Len(Program) /\ Program[fsx.at + 1] = "identity"
    BY <1>1, <1>2, <1>5 DEF At
  <2>2. Program[(fsx.at + 1) - 1] = "rename"
    BY <1>4, <2>1 DEF Ordered
  <2> QED
    BY <1>1, <2>2
<1>6. ASSUME s = "rename", Shizuku, fsx'.phase = "running" PROVE At("identity")'
  <2>1. fsx.at < Len(Program) /\ Program[fsx.at + 1] = "identity"
    BY <1>1, <1>4, <1>6 DEF Ordered
  <2> QED
    BY <1>1, <1>2, <1>6, <2>1 DEF At
<1> QED
  BY <1>3, <1>5, <1>6

\* At one step at a time.
LEMMA OneStep ==
  ASSUME NEW s, NEW t, At(s), At(t)
  PROVE  s = t
BY DEF At

\* What another process asks of a rename is what the invariant says of it.
LEMMA RenamedBehind ==
  ASSUME FsTypeOK
  PROVE  Renamed <=> "rename" \in Behind
<1>1. fsx.at \in Nat /\ Len(Program) \in Nat
  BY ProgramOrdered, LenProperties DEF FsTypeOK, FsCallStates
<1> QED
  BY <1>1 DEF Renamed, Behind, Before

-----------------------------------------------------------------------------
(* The two ends of most steps: it is taken, or the call fails.             *)

\* What most steps leave alone in the call.
Keeps ==
  /\ fsx' \in FsCallStates'
  /\ fsx'.call = fsx.call /\ fsx'.by = fsx.by /\ fsx'.over = fsx.over
  /\ fsx'.rolled = fsx.rolled /\ fsx'.requested = fsx.requested

\* What it saw of its destination, and whether its cleanup is verified.
KeepsSeen ==
  /\ fsx'.seen = fsx.seen /\ fsx'.exists = fsx.exists /\ fsx'.verified = fsx.verified

\* What a taken step leaves alone.
LEMMA NextFields ==
  ASSUME FsTypeOK, Next1
  PROVE  /\ Keeps /\ KeepsSeen /\ fsx'.at = fsx.at + 1 /\ fsx'.phase = fsx.phase
         /\ fsx'.locked = fsx.locked /\ fsx'.err = fsx.err /\ fsx'.committed = fsx.committed
BY DEF FsTypeOK, FsCallStates, Next1, Keeps, KeepsSeen

\* What a failure leaves alone.
LEMMA FailFields ==
  ASSUME FsTypeOK, NEW e, Fail(e)
  PROVE  /\ Keeps /\ KeepsSeen /\ fsx'.at = fsx.at /\ fsx'.phase = "failing"
         /\ fsx'.locked = FALSE /\ fsx'.err = e /\ fsx'.committed = fsx.committed
BY DEF FsTypeOK, FsCallStates, Fail, Keeps, KeepsSeen

\* A call that fails before it touched anything, or after it is done with what it displaced.
LEMMA FailInv ==
  ASSUME FsInv, NEW e, Fail(e), UNCHANGED fs, Other, fsx.phase \in {"admitted", "running"},
         ~At("identity"), e = "cancelled" => ~fsx.committed /\ Untouched
  PROVE  FsInv'
<1>0. FsTypeOK /\ Phases /\ Whole /\ Careful /\ Claimed /\ Found
  BY DEF FsInv
<1>1. /\ Keeps /\ KeepsSeen /\ fsx'.at = fsx.at /\ fsx'.phase = "failing"
      /\ fsx'.locked = FALSE /\ fsx'.err = e /\ fsx'.committed = fsx.committed
  BY <1>0, FailFields
<1>2. Behind' = Behind /\ (Shizuku' <=> Shizuku) /\ From' = From
  BY <1>1, SameBehind, SameProgram DEF Keeps
<1>3. fs' = fs /\ outside' = outside /\ fsHost' = fsHost
  BY DEF Other
<1>4. FsTypeOK'
  BY <1>0, <1>1, <1>3 DEF FsTypeOK, Keeps
<1>5. Phases'
  BY <1>0, <1>1, <1>2, <1>3 DEF Phases, Keeps, FsEarly, FsOver
<1>6. Whole'
  BY <1>0, <1>1, <1>2, <1>3 DEF Whole, Keeps, Present, At
<1>7. Careful'
  BY <1>0, <1>1, <1>2 DEF Careful, Keeps, KeepsSeen
<1>8. Claimed'
  <2>1. Untouched' <=> Untouched
    BY <1>3 DEF Untouched
  <2> QED
    BY <1>0, <1>1, <1>2, <2>1 DEF Claimed, Keeps, FsEarly, FsOver
<1>9. Found'
  BY <1>0, <1>1, <1>2, <1>3 DEF Found, PutBefore, Keeps, KeepsSeen, Entry, FsOver
<1> QED
  BY <1>4, <1>5, <1>6, <1>7, <1>8, <1>9 DEF FsInv

\* A step that changes no entry the invariant is about.
LEMMA QuietInv ==
  ASSUME FsInv, NEW s \in {"look", "stage", "sync", "identity", "syncdir", "unstage", "displace",
                           "verify", "mkdir"},
         At(s), Keeps, KeepsSeen, fsx'.at = fsx.at + 1, fsx'.phase = fsx.phase,
         fsx'.locked = fsx.locked, fsx'.err = fsx.err, fsx'.committed = fsx.committed,
         fs' \in [Slots -> Entries], fs'["dst"] = fs["dst"], fs'["src"] = fs["src"],
         fs'["pub"] = fs["pub"], Other,
         s = "identity" => ~fsx.exists \/ fs[From].id = fsx.seen
  PROVE  FsInv'
<1>0. FsTypeOK /\ Phases /\ Whole /\ Careful /\ Claimed /\ Found
  BY DEF FsInv
<1>1. fsx.phase = "running" /\ Rules(s)
  BY <1>0, StepRules DEF At
<1>2. /\ Behind' = Behind \cup {s} /\ (Shizuku' <=> Shizuku) /\ From' = From
      /\ ~At("identity")'
  BY <1>0, NextBehind, SameProgram DEF Keeps
<1>3. outside' = outside /\ fsHost' = fsHost
  BY DEF Other
<1>4. FsTypeOK'
  BY <1>0, <1>3 DEF FsTypeOK, Keeps
<1>5. Phases'
  BY <1>0, <1>1, <1>2, <1>3 DEF Phases, Keeps, FsEarly, FsOver
<1>6. Whole'
  BY <1>0, <1>1, <1>2, <1>3 DEF Whole, Keeps, Present, From
<1>7. Careful'
  BY <1>0, <1>1, <1>2 DEF Careful, Keeps, KeepsSeen
<1>8. Claimed'
  <2>1. Untouched' <=> Untouched
    BY <1>3 DEF Untouched
  <2> QED
    BY <1>0, <1>1, <1>2, <2>1 DEF Claimed, Keeps, FsEarly, FsOver
<1>9. Found'
  <2>1. ~(At("identity") /\ s # "identity")
    BY OneStep
  <2>2. fs'[From] = fs[From]
    BY DEF From
  <2> QED
    BY <1>0, <1>1, <1>2, <1>3, <2>1, <2>2 DEF Found, PutBefore, Keeps, KeepsSeen, Entry, FsOver
<1> QED
  BY <1>4, <1>5, <1>6, <1>7, <1>8, <1>9 DEF FsInv

-----------------------------------------------------------------------------
(* The actions.                                                            *)

\* A call starts on an admission that still holds, or has touched nothing.
LEMMA StartInv ==
  ASSUME FsInv, FsStart
  PROVE  FsInv'
<1>0. FsTypeOK /\ Phases /\ Whole /\ Careful /\ Claimed /\ Found
  BY DEF FsInv
<1>1. fsx.phase = "admitted" /\ UNCHANGED fs /\ Other /\ ~At("identity")
  BY DEF FsStart, At
<1>2. CASE Fail("stale")
  BY <1>1, <1>2, FailInv
<1>3. CASE fsx.requested /\ Fail("cancelled")
  <2>1. fsx.requested /\ fsx.at = 1 /\ ~fsx.committed
    BY <1>0, <1>1, <1>3 DEF Phases, FsEarly
  <2>2. "rename" \notin Behind
    BY <2>1 DEF Behind, Before
  <2>3. Untouched
    BY <1>0, <1>1, <2>1, <2>2 DEF Claimed, FsEarly
  <2> QED
    BY <1>1, <1>3, <2>1, <2>3, FailInv
<1>4. CASE fsx' = [fsx EXCEPT !.phase = "running"]
  <2>1. /\ Keeps /\ KeepsSeen /\ fsx'.at = fsx.at /\ fsx'.phase = "running"
        /\ fsx'.locked = fsx.locked /\ fsx'.err = fsx.err /\ fsx'.committed = fsx.committed
    BY <1>0, <1>4 DEF FsTypeOK, FsCallStates, Keeps, KeepsSeen
  <2>2. Behind' = Behind /\ (Shizuku' <=> Shizuku) /\ From' = From /\ Program' = Program
    BY <2>1, SameBehind, SameProgram DEF Keeps
  <2>3. Behind = {}
    BY <1>0, <1>1 DEF Behind, Before, Phases, FsEarly
  <2>4. fs' = fs /\ outside' = outside /\ fsHost' = fsHost
    BY <1>1 DEF Other
  <2>5. ~At("identity")'
    <3>1. fsx.at = 1 /\ Len(Program) \in Nat
      BY <1>0, <1>1, ProgramOrdered, LenProperties DEF Phases, FsEarly
    <3>2. 1 \in 1..Len(Program) => Program[1] # "identity"
      BY <1>0, ProgramOrdered DEF Ordered
    <3> QED
      BY <2>1, <2>2, <3>1, <3>2 DEF At
  <2>6. FsTypeOK'
    BY <1>0, <2>1, <2>4 DEF FsTypeOK, Keeps
  <2>7. Phases' /\ Careful'
    BY <1>0, <1>1, <2>1, <2>2, <2>4 DEF Phases, Careful, Keeps, KeepsSeen, FsEarly, FsOver
  <2>8. Whole'
    BY <1>0, <1>1, <2>1, <2>2, <2>3, <2>4, <2>5 DEF Whole, Keeps, Present
  <2>9. Claimed'
    <3>1. Untouched' <=> Untouched
      BY <2>4 DEF Untouched
    <3> QED
      BY <1>0, <1>1, <2>1, <2>2, <2>3, <3>1 DEF Claimed, Keeps, FsEarly, FsOver
  <2>10. Found'
    BY <1>0, <1>1, <2>1, <2>2, <2>3, <2>4 DEF Found, PutBefore, Keeps, KeepsSeen, Entry, FsOver
  <2> QED
    BY <2>6, <2>7, <2>8, <2>9, <2>10 DEF FsInv
<1> QED
  BY <1>2, <1>3, <1>4 DEF FsStart

\* A cancellation ends the call only where nothing has been published.
LEMMA CancelledInv ==
  ASSUME FsInv, FsCancelled
  PROVE  FsInv'
<1>0. FsTypeOK /\ Phases /\ Whole /\ Careful /\ Claimed /\ Found
  BY DEF FsInv
<1> DEFINE s == Program[fsx.at]
<1>1. At(s) /\ fsx.phase = "running" /\ fsx.requested /\ s \in Asks
  BY DEF FsCancelled, Refused, At
<1>2. Fail("cancelled") /\ UNCHANGED fs /\ Other
  BY DEF FsCancelled
<1>3. Rules(s)
  BY <1>0, <1>1, StepRules
<1>4. ~fsx.committed
  BY <1>0, <1>1 DEF Claimed
<1> HIDE DEF s
<1>5. Untouched
  <2>1. CASE Shizuku
    BY <1>0, <1>4, <2>1 DEF Claimed
  <2>2. CASE ~Shizuku
    <3>1. fsx.call.op \in {"download", "archive", "extract"} /\ s \in {"verify", "stage", "lock", "fill"}
      <4>1. fsx.call.op \in FsOps
        BY <1>0, CallFields DEF FsTypeOK, FsCallStates
      <4> QED
        BY <1>1, <2>2, <4>1 DEF Asks, FsOps
    <3>2. s = "verify" => fsx.call.op = "archive"
      BY <1>1, <2>2, <3>1 DEF Asks
    <3>3. s # "verify"
      BY <1>0, <1>1, <1>3, <1>4, <2>2, <3>1, <3>2 DEF Claimed, Rules
    <3> QED
      BY <1>0, <1>3, <2>2, <3>1, <3>3 DEF Claimed, Rules
  <2> QED
    BY <2>1, <2>2
<1>6. ~At("identity")
  <2>1. s # "identity"
    BY <1>1 DEF Asks
  <2> QED
    BY <1>1, <2>1, OneStep
<1> QED
  BY <1>1, <1>2, <1>4, <1>5, <1>6, FailInv

\* A fault that leaves the entries alone.
LEMMA BreaksInv ==
  ASSUME FsInv, NEW s, Begin(s), s # "identity", NEW e, e # "cancelled", Fail(e), UNCHANGED fs
  PROVE  FsInv'
<1>1. ~At("identity") /\ fsx.phase = "running" /\ Other
  BY OneStep DEF Begin, At
<1> QED
  BY <1>1, FailInv

\* A step that only moves the call on.
LEMMA TakenInv ==
  ASSUME FsInv, NEW s \in {"look", "stage", "sync", "identity", "syncdir", "unstage", "displace",
                           "verify", "mkdir"},
         Begin(s), Next1, UNCHANGED fs, s = "identity" => ~fsx.exists \/ fs[From].id = fsx.seen
  PROVE  FsInv'
<1>1. FsTypeOK /\ At(s) /\ Other
  BY DEF FsInv, Begin
<1>2. fs' \in [Slots -> Entries]
  BY <1>1 DEF FsTypeOK
<1> QED
  BY <1>1, <1>2, NextFields, QuietInv

\* The read-only actions, the sync and the postcondition.
LEMMA LooksInv ==
  ASSUME FsInv, FsInspect \/ FsRead \/ FsReadRef \/ FsList \/ FsSync \/ FsVerify
  PROVE  FsInv'
<1>1. CASE FsSync
  BY <1>1, BreaksInv, TakenInv DEF FsSync, Breaks
<1>2. CASE FsVerify
  BY <1>2, BreaksInv, TakenInv DEF FsVerify, Breaks
<1>3. ASSUME NEW there \in BOOLEAN, Looks(there) PROVE FsInv'
  BY <1>3, BreaksInv, TakenInv DEF Looks, Breaks
<1>4. CASE FsInspect
  BY <1>3, <1>4 DEF FsInspect
<1>5. CASE FsRead
  BY <1>3, <1>5 DEF FsRead
<1>6. CASE FsReadRef
  BY <1>3, <1>6 DEF FsReadRef
<1>7. CASE FsList
  BY <1>3, <1>7 DEF FsList
<1> QED
  BY <1>1, <1>2, <1>4, <1>5, <1>6, <1>7

\* A step on the way to the rename, which builds the entry beside its destination.
LEMMA BuildInv ==
  ASSUME FsInv, NEW s, Begin(s), s \notin {"rename", "commit", "mkdir", "delete"},
         "rename" \notin Behind, fsx' \in FsCallStates', fsx'.call = fsx.call, fsx'.by = fsx.by,
         fsx'.phase = fsx.phase, fsx'.rolled = fsx.rolled, fsx'.requested = fsx.requested,
         fsx'.committed = fsx.committed, fsx'.err = fsx.err,
         fsx'.at = fsx.at \/ fsx'.at = fsx.at + 1,
         fs' \in [Slots -> Entries], fs'["dst"] = fs["dst"], fs'["src"] = fs["src"],
         fsx'.over => fsx.call.over,
         fsx'.exists /\ ~fsx.call.over
           => Shizuku /\ fsx.call.op = "move" /\ "recheck" \notin Behind',
         "fill" \in Behind' => fs'["pub"].body = Pieces,
         "lock" \in Behind' /\ "commit" \notin Behind' => fsx'.locked /\ ~fsx.requested
  PROVE  FsInv'
<1>0. FsTypeOK /\ Phases /\ Whole /\ Careful /\ Claimed /\ Found
  BY DEF FsInv
<1>1. At(s) /\ fsx.phase = "running" /\ Rules(s)
  BY <1>0, StepRules DEF At, Begin
<1>2. outside' = outside /\ fsHost' = fsHost
  BY DEF Other, Begin
<1>3. /\ Behind' = Behind \/ Behind' = Behind \cup {s}
      /\ (Shizuku' <=> Shizuku) /\ From' = From /\ ~At("identity")'
  <2>1. Program' = Program /\ (Shizuku' <=> Shizuku) /\ From' = From
    BY SameProgram
  <2>2. CASE fsx'.at = fsx.at
    <3>1. Behind' = Behind
      BY <2>2, SameBehind
    <3>2. ~At("identity")
      <4>1. s # "identity"
        BY <1>1 DEF Rules
      <4> QED
        BY <1>1, <4>1, OneStep
    <3> QED
      BY <2>1, <2>2, <3>1, <3>2 DEF At
  <2>3. CASE fsx'.at = fsx.at + 1
    BY <1>0, <1>1, <2>1, <2>3, NextBehind
  <2> QED
    BY <2>2, <2>3
<1>4. FsTypeOK'
  BY <1>0, <1>2 DEF FsTypeOK
<1>5. Phases' /\ Careful'
  BY <1>0, <1>1, <1>2, <1>3 DEF Phases, Careful, FsEarly, FsOver
<1>6. Whole'
  BY <1>0, <1>1, <1>3 DEF Whole, Present
<1>7. Claimed'
  <2>1. Untouched' <=> Untouched
    BY <1>2 DEF Untouched
  <2> QED
    BY <1>0, <1>1, <1>3, <2>1 DEF Claimed, FsEarly, FsOver
<1>8. Found'
  BY <1>0, <1>1, <1>2, <1>3 DEF Found, PutBefore, Entry
<1> QED
  BY <1>4, <1>5, <1>6, <1>7, <1>8 DEF FsInv

\* The checks before an action builds anything.
LEMMA CheckInv ==
  ASSUME FsInv, FsCheck
  PROVE  FsInv'
<1>0. FsTypeOK /\ Whole /\ Careful /\ Claimed
  BY DEF FsInv
<1>1. Begin("check") /\ At("check") /\ Rules("check") /\ fsx.phase = "running"
  BY <1>0, StepRules DEF FsCheck, Begin, At
<1>2. CASE \E e : e # "cancelled" /\ Fail(e) /\ UNCHANGED fs
  BY <1>1, <1>2, BreaksInv
<1>3. CASE /\ CheckError = "ok"
           /\ fsx' = [fsx EXCEPT !.at = @ + 1, !.seen = fs["dst"].id, !.exists = Present("dst"),
                        !.over = IF Shizuku /\ fsx.call.op = "copy" /\ fsx.call.kind = "file"
                                    /\ fsx.at = 1 THEN Present("dst") ELSE @]
           /\ UNCHANGED fs
  <2> DEFINE o == IF Shizuku /\ fsx.call.op = "copy" /\ fsx.call.kind = "file" /\ fsx.at = 1
                  THEN Present("dst") ELSE fsx.over
             b == Present("dst")
             i == fs["dst"].id
             n == fsx.at + 1
  <2>1. fsx' = [fsx EXCEPT !.at = n, !.seen = i, !.exists = b, !.over = o]
    BY <1>3
  <2>14. fsx \in FsCallStates /\ fs["dst"] \in Entries
    BY <1>0 DEF FsTypeOK, Slots
  <2>15. b \in BOOLEAN /\ o \in BOOLEAN
    BY <2>14 DEF FsCallStates, Present
  <2>16. i \in Ids
    BY <2>14 DEF Entries
  <2>17. n \in Nat \ {0}
    BY <2>14 DEF FsCallStates
  <2>3. b => fsx.over \/ (Shizuku /\ fsx.call.op = "move")
    BY <1>3 DEF CheckError
  <2>4. o => fsx.over
    BY <2>3
  <2> HIDE DEF o, b, i, n
  <2>13. /\ fsx' \in FsCallStates' /\ fsx'.call = fsx.call /\ fsx'.by = fsx.by
        /\ fsx'.phase = fsx.phase /\ fsx'.rolled = fsx.rolled /\ fsx'.requested = fsx.requested
        /\ fsx'.committed = fsx.committed /\ fsx'.err = fsx.err /\ fsx'.at = n
        /\ fsx'.locked = fsx.locked /\ fsx'.over = o /\ fsx'.exists = b
    BY <2>1, <2>14, <2>15, <2>16, <2>17 DEF FsCallStates
  <2>5. fsx'.at = fsx.at + 1
    BY <2>13 DEF n
  <2>6. Behind' = Behind \cup {"check"}
    BY <1>0, <1>1, <2>5, <2>13, NextBehind
  <2>7. "fill" \in Behind' => fs'["pub"].body = Pieces
    BY <1>0, <1>1, <1>3, <2>6 DEF Whole, Rules
  <2>8. "lock" \in Behind' /\ "commit" \notin Behind' => fsx'.locked /\ ~fsx.requested
    BY <1>0, <1>1, <2>5, <2>13, <2>6 DEF Claimed
  <2>9. fsx'.over => fsx.call.over
    BY <1>0, <2>4, <2>5, <2>13 DEF Careful
  <2>10. fsx'.exists /\ ~fsx.call.over
           => Shizuku /\ fsx.call.op = "move" /\ "recheck" \notin Behind'
    BY <1>0, <1>1, <2>3, <2>5, <2>13, <2>6 DEF Careful, Rules
  <2>11. "rename" \notin Behind
    BY <1>1 DEF Rules
  <2>12. fs' \in [Slots -> Entries] /\ fs'["dst"] = fs["dst"] /\ fs'["src"] = fs["src"]
    BY <1>0, <1>3 DEF FsTypeOK
  <2> QED
    BY <1>1, <2>5, <2>13, <2>7, <2>8, <2>9, <2>10, <2>11, <2>12, BuildInv
<1>4. CheckError # "cancelled"
  BY DEF CheckError
<1> QED
  BY <1>2, <1>3, <1>4 DEF FsCheck, Breaks

\* A step that grows what is built, or takes it as whole.
LEMMA GrowInv ==
  ASSUME FsInv, NEW s \in {"stage", "fill"}, Begin(s), UNCHANGED fsx \/ Next1,
         fs' \in [Slots -> Entries], fs'["dst"] = fs["dst"], fs'["src"] = fs["src"],
         s = "stage" => fs'["pub"] = fs["pub"],
         "fill" \in Behind' => fs'["pub"].body = Pieces
  PROVE  FsInv'
<1>0. FsTypeOK /\ Careful /\ Claimed
  BY DEF FsInv
<1>1. At(s) /\ fsx.phase = "running" /\ Rules(s)
  BY <1>0, StepRules DEF At, Begin
<1>2. /\ fsx' \in FsCallStates' /\ fsx'.call = fsx.call /\ fsx'.by = fsx.by
      /\ fsx'.phase = fsx.phase /\ fsx'.rolled = fsx.rolled /\ fsx'.requested = fsx.requested
      /\ fsx'.committed = fsx.committed /\ fsx'.err = fsx.err
      /\ (fsx'.at = fsx.at \/ fsx'.at = fsx.at + 1)
      /\ fsx'.locked = fsx.locked /\ fsx'.over = fsx.over /\ fsx'.exists = fsx.exists
  <2>1. CASE UNCHANGED fsx
    BY <1>0, <2>1 DEF FsTypeOK, FsCallStates
  <2>2. CASE Next1
    BY <1>0, <2>2, NextFields DEF Keeps, KeepsSeen
  <2> QED
    BY <2>1, <2>2
<1>3. Behind' = Behind \/ Behind' = Behind \cup {s}
  BY <1>0, <1>1, <1>2, SameBehind, NextBehind
<1>4. "rename" \notin Behind
  BY <1>1 DEF Rules
<1>5. fsx'.over => fsx.call.over
  BY <1>0, <1>2 DEF Careful
<1>6. fsx'.exists /\ ~fsx.call.over => Shizuku /\ fsx.call.op = "move" /\ "recheck" \notin Behind'
  BY <1>0, <1>2, <1>3 DEF Careful
<1>7. "lock" \in Behind' /\ "commit" \notin Behind' => fsx'.locked /\ ~fsx.requested
  BY <1>0, <1>1, <1>2, <1>3 DEF Claimed
<1> QED
  BY <1>2, <1>4, <1>5, <1>6, <1>7, BuildInv

\* One piece more, or the end of the entry.
LEMMA GrowsInv ==
  ASSUME FsInv, NEW s \in {"stage", "fill"}, NEW slot \in {"stage", "pub"},
         s = "stage" <=> slot = "stage", Grows(s, slot)
  PROVE  FsInv'
<1>0. FsTypeOK /\ Whole
  BY DEF FsInv
<1>1. Begin(s) /\ At(s) /\ fsx.phase = "running" /\ Rules(s)
  BY <1>0, StepRules DEF At, Begin, Grows
<1>2. CASE Fail("io") /\ UNCHANGED fs
  BY <1>1, <1>2, BreaksInv
<1>3. CASE /\ fs[slot].body < Pieces
           /\ fs' = [fs EXCEPT ![slot] = [kind |-> fsx.call.kind, id |-> "new", body |-> @.body + 1]]
           /\ UNCHANGED fsx
  <2> DEFINE y == [kind |-> fsx.call.kind, id |-> "new", body |-> fs[slot].body + 1]
  <2>1. y \in Entries
    <3>1. fsx.call \in FsCalls /\ fs[slot] \in Entries
      BY <1>0 DEF FsTypeOK, FsCallStates, Slots
    <3>2. fsx.call.kind \in Kinds
      BY <3>1, CallFields DEF Kinds
    <3>3. fs[slot].body + 1 \in Nat
      BY <3>1 DEF Entries
    <3> QED
      BY <3>2, <3>3 DEF Entries, Ids
  <2>2. fs' = [fs EXCEPT ![slot] = y]
    BY <1>3
  <2> HIDE DEF y
  <2>3. /\ fs' \in [Slots -> Entries] /\ fs'["dst"] = fs["dst"] /\ fs'["src"] = fs["src"]
        /\ (s = "stage" => fs'["pub"] = fs["pub"])
    BY <1>0, <2>1, <2>2 DEF FsTypeOK, Slots
  <2>4. Behind' = Behind
    BY <1>3, SameBehind
  <2>5. s = "fill" => "fill" \notin Behind
    <3>1. s = "fill" => fs["pub"].body < Pieces
      BY <1>3
    <3>2. fs["pub"].body \in Nat /\ Pieces \in Nat
      BY <1>0, FilesystemAssumption DEF FsTypeOK, Entries, Slots
    <3> QED
      BY <1>0, <1>1, <3>1, <3>2 DEF Whole, Rules
  <2>6. "fill" \in Behind' => fs'["pub"].body = Pieces
    BY <1>0, <1>1, <2>3, <2>4, <2>5 DEF Whole, Rules
  <2> QED
    BY <1>1, <1>3, <2>3, <2>6, GrowInv
<1>4. CASE fs[slot].body = Pieces /\ Next1 /\ UNCHANGED fs
  <2>1. fs' \in [Slots -> Entries] /\ fs' = fs
    BY <1>0, <1>4 DEF FsTypeOK
  <2>2. Behind' = Behind \cup {s}
    BY <1>0, <1>1, <1>4, NextFields, NextBehind DEF Keeps
  <2>3. "fill" \in Behind' => fs'["pub"].body = Pieces
    BY <1>0, <1>1, <1>4, <2>1, <2>2 DEF Whole, Rules
  <2> QED
    BY <1>1, <1>4, <2>1, <2>3, GrowInv
<1> QED
  BY <1>2, <1>3, <1>4 DEF Grows, Breaks

\* The Task's temporary and the entry beside the destination.
LEMMA FillInv ==
  ASSUME FsInv,
         FsDownload \/ FsPack \/ FsUnpack \/ FsFill \/ FsCopyTree \/ FsCopyLink \/ FsCopyStage
  PROVE  FsInv'
<1>1. CASE Grows("stage", "stage")
  BY <1>1, GrowsInv
<1>2. CASE Grows("fill", "pub")
  BY <1>2, GrowsInv
<1>3. CASE Begin("stage") /\ \E e : e # "cancelled" /\ Fail(e) /\ UNCHANGED fs
  BY <1>3, BreaksInv
<1> QED
  BY <1>1, <1>2, <1>3
  DEF FsDownload, FsPack, FsUnpack, FsFill, FsCopyTree, FsCopyLink, FsCopyStage

\* The temporary sibling is made before anything is filled into it.
LEMMA CreateInv ==
  ASSUME FsInv, FsCreate
  PROVE  FsInv'
<1>0. FsTypeOK /\ Phases /\ Whole /\ Careful /\ Claimed /\ Found
  BY DEF FsInv
<1>1. Begin("create") /\ At("create") /\ fsx.phase = "running" /\ Rules("create") /\ Other
  BY <1>0, StepRules DEF At, Begin, FsCreate
<1> DEFINE y == [kind |-> fsx.call.kind, id |-> "new",
                 body |-> IF fsx.call.kind = "link" THEN Pieces ELSE 0]
           made == [fs EXCEPT !["pub"] = y]
<1>2. y \in Entries
  <2>1. fsx.call.kind \in Kinds
    BY <1>0, CallFields DEF Kinds, FsTypeOK, FsCallStates
  <2>2. (IF fsx.call.kind = "link" THEN Pieces ELSE 0) \in Nat
    BY FilesystemAssumption
  <2> QED
    BY <2>1, <2>2 DEF Entries, Ids
<1>3. \/ \E e : e # "cancelled" /\ Fail(e) /\ UNCHANGED fs
      \/ fsx' = [fsx EXCEPT !.at = @ + 1, !.owned = TRUE] /\ fs' = made
      \/ Fail("io") /\ fs' = made
  BY DEF FsCreate, Breaks
<1> HIDE DEF y
<1>4. made \in [Slots -> Entries] /\ made["dst"] = fs["dst"] /\ made["src"] = fs["src"]
  BY <1>0, <1>2 DEF FsTypeOK, Slots
<1> HIDE DEF made
<1>5. CASE \E e : e # "cancelled" /\ Fail(e) /\ UNCHANGED fs
  BY <1>1, <1>5, BreaksInv
<1>6. CASE fsx' = [fsx EXCEPT !.at = @ + 1, !.owned = TRUE] /\ fs' = made
  <2>1. /\ fsx' \in FsCallStates' /\ fsx'.call = fsx.call /\ fsx'.by = fsx.by
        /\ fsx'.phase = fsx.phase /\ fsx'.rolled = fsx.rolled /\ fsx'.requested = fsx.requested
        /\ fsx'.committed = fsx.committed /\ fsx'.err = fsx.err /\ fsx'.at = fsx.at + 1
        /\ fsx'.locked = fsx.locked /\ fsx'.over = fsx.over /\ fsx'.exists = fsx.exists
    <3>1. fsx \in FsCallStates
      BY <1>0 DEF FsTypeOK
    <3> DEFINE n == fsx.at + 1
    <3>2. n \in Nat \ {0} /\ fsx' = [fsx EXCEPT !.at = n, !.owned = TRUE]
      BY <1>6, <3>1 DEF FsCallStates
    <3> HIDE DEF n
    <3>3. /\ fsx' \in FsCallStates' /\ fsx'.call = fsx.call /\ fsx'.by = fsx.by
          /\ fsx'.phase = fsx.phase /\ fsx'.rolled = fsx.rolled /\ fsx'.requested = fsx.requested
          /\ fsx'.committed = fsx.committed /\ fsx'.err = fsx.err /\ fsx'.at = n
          /\ fsx'.locked = fsx.locked /\ fsx'.over = fsx.over /\ fsx'.exists = fsx.exists
      BY <3>1, <3>2 DEF FsCallStates
    <3> QED
      BY <3>3 DEF n
  <2>2. Behind' = Behind \cup {"create"}
    BY <1>0, <1>1, <2>1, NextBehind
  <2>3. "rename" \notin Behind /\ "fill" \notin Behind
    BY <1>1 DEF Rules
  <2>4. /\ fsx'.over => fsx.call.over
        /\ fsx'.exists /\ ~fsx.call.over => Shizuku /\ fsx.call.op = "move" /\ "recheck" \notin Behind'
    BY <1>0, <2>1, <2>2 DEF Careful
  <2>5. "lock" \in Behind' /\ "commit" \notin Behind' => fsx'.locked /\ ~fsx.requested
    BY <1>0, <1>1, <2>1, <2>2 DEF Claimed
  <2> QED
    BY <1>1, <1>4, <1>6, <2>1, <2>2, <2>3, <2>4, <2>5, BuildInv
<1>7. CASE Fail("io") /\ fs' = made
  <2>1. /\ Keeps /\ KeepsSeen /\ fsx'.at = fsx.at /\ fsx'.phase = "failing"
        /\ fsx'.locked = FALSE /\ fsx'.err = "io" /\ fsx'.committed = fsx.committed
    BY <1>0, <1>7, FailFields
  <2>2. Behind' = Behind /\ (Shizuku' <=> Shizuku) /\ From' = From
    BY <2>1, SameBehind, SameProgram DEF Keeps
  <2>3. fs'["dst"] = fs["dst"] /\ fs'["src"] = fs["src"] /\ outside' = outside /\ fsHost' = fsHost
    BY <1>1, <1>4, <1>7 DEF Other
  <2>4. FsTypeOK'
    BY <1>0, <1>4, <1>7, <2>1, <2>3 DEF FsTypeOK, Keeps
  <2>5. Phases' /\ Careful'
    BY <1>0, <1>1, <2>1, <2>2, <2>3 DEF Phases, Careful, Keeps, KeepsSeen, FsEarly, FsOver
  <2>6. Whole'
    BY <1>0, <2>1, <2>2, <2>3 DEF Whole, Keeps, Present, At
  <2>7. Claimed'
    <3>1. Untouched' <=> Untouched
      BY <2>3 DEF Untouched
    <3> QED
      BY <1>0, <1>1, <2>1, <2>2, <3>1 DEF Claimed, Keeps, FsEarly, FsOver
  <2>8. Found'
    <3>1. "rename" \notin Behind
      BY <1>1 DEF Rules
    <3> QED
      BY <1>0, <2>1, <2>2, <2>3, <3>1 DEF Found, PutBefore, Keeps, Entry
  <2> QED
    BY <2>4, <2>5, <2>6, <2>7, <2>8 DEF FsInv
<1> QED
  BY <1>3, <1>5, <1>6, <1>7

\* The check right before the rename.
LEMMA RecheckInv ==
  ASSUME FsInv, FsRecheck
  PROVE  FsInv'
<1>0. FsTypeOK /\ Whole /\ Careful /\ Claimed /\ fsx \in FsCallStates /\ fs["dst"] \in Entries
  BY DEF FsInv, FsTypeOK, Slots
<1>1. Begin("recheck") /\ At("recheck") /\ Rules("recheck") /\ fsx.phase = "running"
  BY <1>0, StepRules DEF FsRecheck, Begin, At
<1>2. CASE \E e : e # "cancelled" /\ Fail(e) /\ UNCHANGED fs
  BY <1>1, <1>2, BreaksInv
<1>3. CASE /\ Present("dst") => fsx.over
           /\ fsx' = [fsx EXCEPT !.at = @ + 1, !.seen = fs["dst"].id, !.exists = Present("dst")]
           /\ UNCHANGED fs
  <2> DEFINE n == fsx.at + 1
             b == Present("dst")
             i == fs["dst"].id
  <2>1. fsx' = [fsx EXCEPT !.at = n, !.seen = i, !.exists = b]
    BY <1>3
  <2>2. b \in BOOLEAN /\ i \in Ids /\ (b => fsx.over)
    BY <1>0, <1>3 DEF Present, Entries
  <2>3. n \in Nat \ {0}
    BY <1>0 DEF FsCallStates
  <2> HIDE DEF n, b, i
  <2>4. /\ fsx' \in FsCallStates' /\ fsx'.call = fsx.call /\ fsx'.by = fsx.by
        /\ fsx'.phase = fsx.phase /\ fsx'.rolled = fsx.rolled /\ fsx'.requested = fsx.requested
        /\ fsx'.committed = fsx.committed /\ fsx'.err = fsx.err /\ fsx'.at = n
        /\ fsx'.locked = fsx.locked /\ fsx'.over = fsx.over /\ fsx'.exists = b
    BY <1>0, <2>1, <2>2, <2>3 DEF FsCallStates
  <2>5. fsx'.at = fsx.at + 1
    BY <2>4 DEF n
  <2>6. Behind' = Behind \cup {"recheck"}
    BY <1>0, <1>1, <2>4, <2>5, NextBehind
  <2>7. "rename" \notin Behind /\ ("fill" \in Behind' => fs'["pub"].body = Pieces)
    BY <1>0, <1>1, <1>3, <2>6 DEF Whole, Rules
  <2>8. "lock" \in Behind' /\ "commit" \notin Behind' => fsx'.locked /\ ~fsx.requested
    BY <1>0, <1>1, <2>4, <2>6 DEF Claimed
  <2>9. (fsx'.over => fsx.call.over) /\ (fsx'.exists => fsx.call.over)
    BY <1>0, <2>2, <2>4 DEF Careful
  <2>10. fs' \in [Slots -> Entries] /\ fs'["dst"] = fs["dst"] /\ fs'["src"] = fs["src"]
    BY <1>0, <1>3 DEF FsTypeOK
  <2> QED
    BY <1>1, <2>4, <2>5, <2>7, <2>8, <2>9, <2>10, BuildInv
<1> QED
  BY <1>2, <1>3 DEF FsRecheck, Breaks

\* Whoever enters the claim's publication was not asked to stop.
LEMMA LockInv ==
  ASSUME FsInv, FsLock
  PROVE  FsInv'
<1>0. FsTypeOK /\ Whole /\ Careful /\ Claimed /\ fsx \in FsCallStates
  BY DEF FsInv, FsTypeOK
<1>1. /\ Begin("lock") /\ At("lock") /\ Rules("lock") /\ fsx.phase = "running" /\ ~Refused
      /\ Program[fsx.at] = "lock" /\ UNCHANGED fs
  BY <1>0, StepRules DEF FsLock, Begin, At
<1>2. ~fsx.requested
  <2>1. "lock" \in Asks
    BY <1>1 DEF Rules, Asks
  <2> QED
    BY <1>1, <2>1 DEF Refused
<1> DEFINE n == fsx.at + 1
<1>3. n \in Nat \ {0} /\ fsx' = [fsx EXCEPT !.at = n, !.locked = TRUE]
  BY <1>0 DEF FsCallStates, FsLock
<1> HIDE DEF n
<1>4. /\ fsx' \in FsCallStates' /\ fsx'.call = fsx.call /\ fsx'.by = fsx.by
      /\ fsx'.phase = fsx.phase /\ fsx'.rolled = fsx.rolled /\ fsx'.requested = fsx.requested
      /\ fsx'.committed = fsx.committed /\ fsx'.err = fsx.err /\ fsx'.at = n
      /\ fsx'.locked /\ fsx'.over = fsx.over /\ fsx'.exists = fsx.exists
  BY <1>0, <1>3 DEF FsCallStates
<1>5. fsx'.at = fsx.at + 1
  BY <1>4 DEF n
<1>6. Behind' = Behind \cup {"lock"}
  BY <1>0, <1>1, <1>4, <1>5, NextBehind
<1>7. "rename" \notin Behind /\ ("fill" \in Behind' => fs'["pub"].body = Pieces)
  BY <1>0, <1>1, <1>6 DEF Whole, Rules
<1>8. /\ fsx'.over => fsx.call.over
      /\ fsx'.exists /\ ~fsx.call.over => Shizuku /\ fsx.call.op = "move" /\ "recheck" \notin Behind'
  BY <1>0, <1>4, <1>6 DEF Careful
<1>9. fs' \in [Slots -> Entries] /\ fs'["dst"] = fs["dst"] /\ fs'["src"] = fs["src"]
  BY <1>0, <1>1 DEF FsTypeOK
<1> QED
  BY <1>1, <1>2, <1>4, <1>5, <1>7, <1>8, <1>9, BuildInv

\* The sync of the directory; what the Shizuku one could not do is reported later.
LEMMA SyncDirInv ==
  ASSUME FsInv, FsSyncDir
  PROVE  FsInv'
<1>0. FsTypeOK /\ fsx \in FsCallStates /\ Begin("syncdir") /\ At("syncdir") /\ Other
  BY DEF FsInv, FsTypeOK, FsSyncDir, Begin
<1>1. CASE Next1 /\ UNCHANGED fs
  BY <1>0, <1>1, TakenInv
<1>2. CASE Fail("io") /\ UNCHANGED fs
  BY <1>0, <1>2, BreaksInv
<1>3. CASE UNCHANGED fs /\ fsx' = [fsx EXCEPT !.at = @ + 1, !.late = "io"]
  <2> DEFINE n == fsx.at + 1
  <2>1. n \in Nat \ {0} /\ fsx' = [fsx EXCEPT !.at = n, !.late = "io"]
    BY <1>0, <1>3 DEF FsCallStates
  <2> HIDE DEF n
  <2>2. /\ Keeps /\ KeepsSeen /\ fsx'.at = n /\ fsx'.phase = fsx.phase
        /\ fsx'.locked = fsx.locked /\ fsx'.err = fsx.err /\ fsx'.committed = fsx.committed
    BY <1>0, <2>1 DEF FsCallStates, Keeps, KeepsSeen
  <2>3. fsx'.at = fsx.at + 1
    BY <2>2 DEF n
  <2>4. fs' \in [Slots -> Entries] /\ fs' = fs
    BY <1>0, <1>3 DEF FsTypeOK
  <2> QED
    BY <1>0, <2>2, <2>3, <2>4, QuietInv
<1> QED
  BY <1>1, <1>2, <1>3 DEF FsSyncDir, Breaks

\* The Task's temporary is removed inside the publication.
LEMMA UnstageInv ==
  ASSUME FsInv, FsUnstage
  PROVE  FsInv'
<1>0. FsTypeOK /\ Begin("unstage") /\ At("unstage") /\ Other
  BY DEF FsInv, FsUnstage, Begin
<1>1. CASE fs' = [fs EXCEPT !["stage"] = NoEntry] /\ Next1
  <2>1. NoEntry \in Entries
    BY DEF NoEntry, Entries, Kinds, Ids
  <2>2. /\ fs' \in [Slots -> Entries] /\ fs'["dst"] = fs["dst"] /\ fs'["src"] = fs["src"]
        /\ fs'["pub"] = fs["pub"]
    BY <1>0, <1>1, <2>1 DEF FsTypeOK, Slots
  <2> QED
    BY <1>0, <1>1, <2>2, NextFields, QuietInv
<1>2. CASE Fail("io") /\ UNCHANGED fs
  BY <1>0, <1>2, BreaksInv
<1> QED
  BY <1>1, <1>2 DEF FsUnstage, Breaks

\* The commit of a native publication, under the lock that no cancellation passes.
LEMMA CommitInv ==
  ASSUME FsInv, FsCommit
  PROVE  FsInv'
<1>0. FsTypeOK /\ Phases /\ Whole /\ Careful /\ Claimed /\ Found /\ fsx \in FsCallStates
  BY DEF FsInv, FsTypeOK
<1>1. At("commit") /\ fsx.phase = "running" /\ Rules("commit") /\ fs' = fs
  BY <1>0, StepRules DEF FsCommit, Begin, At
<1>2. outside' = outside /\ fsHost' = fsHost
  BY DEF FsCommit, Begin, Other
<1> DEFINE n == fsx.at + 1
<1>3. n \in Nat \ {0} /\ fsx' = [fsx EXCEPT !.at = n, !.locked = FALSE, !.committed = TRUE]
  BY <1>0 DEF FsCallStates, FsCommit
<1> HIDE DEF n
<1>4. /\ Keeps /\ KeepsSeen /\ fsx'.at = n /\ fsx'.phase = fsx.phase
      /\ fsx'.err = fsx.err /\ fsx'.committed = TRUE
  BY <1>0, <1>3 DEF FsCallStates, Keeps, KeepsSeen
<1>5. fsx'.at = fsx.at + 1
  BY <1>4 DEF n
<1>6. /\ Behind' = Behind \cup {"commit"} /\ (Shizuku' <=> Shizuku) /\ From' = From
      /\ ~At("identity")'
  BY <1>0, <1>1, <1>4, <1>5, NextBehind, SameProgram DEF Keeps
<1>7. FsTypeOK'
  BY <1>0, <1>1, <1>2, <1>4 DEF FsTypeOK, Keeps
<1>8. Phases' /\ Careful'
  BY <1>0, <1>1, <1>2, <1>4, <1>6 DEF Phases, Careful, Keeps, KeepsSeen, FsEarly, FsOver
<1>9. Whole'
  BY <1>0, <1>1, <1>4, <1>6 DEF Whole, Keeps, Present
<1>10. Claimed'
  <2>1. Untouched' <=> Untouched
    BY <1>1, <1>2 DEF Untouched
  <2> QED
    BY <1>0, <1>1, <1>4, <1>6, <2>1 DEF Claimed, Keeps, FsEarly, FsOver, Rules
<1>11. Found'
  BY <1>0, <1>1, <1>2, <1>4, <1>6 DEF Found, PutBefore, Keeps, KeepsSeen, Entry, Rules
<1> QED
  BY <1>7, <1>8, <1>9, <1>10, <1>11 DEF FsInv

\* The rename puts a whole entry in place, and takes away only what the call may replace.
LEMMA RenameInv ==
  ASSUME FsInv, FsRename
  PROVE  FsInv'
<1>0. FsTypeOK /\ Phases /\ Whole /\ Careful /\ Claimed /\ Found /\ fsx \in FsCallStates
  BY DEF FsInv, FsTypeOK
<1>1. /\ Begin("rename") /\ At("rename") /\ fsx.phase = "running" /\ Rules("rename")
      /\ ~Refused /\ Program[fsx.at] = "rename"
  BY <1>0, StepRules DEF FsRename, Begin, At
<1>2. outside' = outside /\ fsHost' = fsHost
  BY DEF FsRename, Begin, Other
<1>3. CASE \E e : e # "cancelled" /\ Fail(e) /\ UNCHANGED fs
  BY <1>1, <1>3, BreaksInv
<1>4. Renames # "cancelled"
  <2>1. fsx.exists \in BOOLEAN
    BY <1>0 DEF FsCallStates
  <2> QED
    BY <2>1 DEF Renames
<1>5. CASE /\ Renames \in {"moves", "swaps"}
           /\ fs' = IF Renames = "moves" THEN Moved ELSE Swapped
           /\ Committed1
  <2> DEFINE n == fsx.at + 1
             c == fsx.committed \/ Shizuku
  <2>1. n \in Nat \ {0} /\ c \in BOOLEAN /\ fsx' = [fsx EXCEPT !.at = n, !.committed = c]
    BY <1>0, <1>5 DEF FsCallStates, Committed1
  <2> HIDE DEF n, c
  <2>2. /\ Keeps /\ KeepsSeen /\ fsx'.at = n /\ fsx'.phase = fsx.phase
        /\ fsx'.err = fsx.err /\ fsx'.committed = c /\ fsx'.locked = fsx.locked
    BY <1>0, <2>1 DEF FsCallStates, Keeps, KeepsSeen
  <2>3. fsx'.at = fsx.at + 1 /\ (fsx'.committed <=> fsx.committed \/ Shizuku)
    BY <2>2 DEF n, c
  <2>4. /\ Behind' = Behind \cup {"rename"} /\ (Shizuku' <=> Shizuku) /\ From' = From
        /\ (Shizuku => At("identity")')
    BY <1>0, <1>1, <2>2, <2>3, NextBehind, SameProgram DEF Keeps
  <2>5. From \in {"src", "pub"} /\ fs \in [Slots -> Entries] /\ NoEntry \in Entries
    BY <1>0 DEF From, FsTypeOK, NoEntry, Entries, Kinds, Ids
  <2>6. /\ fs' \in [Slots -> Entries] /\ fs'["dst"] = fs[From]
        /\ fs'[From] = IF Renames = "moves" THEN NoEntry ELSE fs["dst"]
    <3> DEFINE x == NoEntry
    <3> HIDE DEF x
    <3>1. NoEntry = x
      BY DEF x
    <3> QED
      BY <1>5, <2>5, <3>1 DEF Moved, Swapped, Slots
  <2>7. Shizuku => ~fsx.requested
    <3>1. Shizuku => "rename" \in Asks
      BY DEF Asks
    <3> QED
      BY <1>1, <3>1 DEF Refused
  <2>8. FsTypeOK'
    BY <1>0, <1>2, <2>2, <2>6 DEF FsTypeOK, Keeps
  <2>9. Phases' /\ Careful'
    BY <1>0, <1>1, <1>2, <2>2, <2>4 DEF Phases, Careful, Keeps, KeepsSeen, FsEarly, FsOver, Rules
  <2>10. Whole'
    <3>1. ~fsx.rolled
      BY <1>0, <1>1 DEF Phases, FsOver
    <3>2. Present(From) => fs[From].body = Pieces
      BY <1>0, <1>1 DEF Whole, Rules, From, Present
    <3>3. Present("dst") => fs["dst"].body = Pieces
      BY <1>0, <1>1, <3>1 DEF Whole, Rules
    <3>4. fs'[From].kind # "none" => fs'[From].body = Pieces
      BY <2>6, <3>3 DEF Present, NoEntry
    <3> QED
      BY <1>1, <2>2, <2>4, <2>6, <3>1, <3>2, <3>4 DEF Whole, Present, Keeps
  <2>11. Claimed'
    BY <1>0, <1>1, <2>2, <2>3, <2>4, <2>7 DEF Claimed, Keeps, FsEarly, FsOver
  <2>12. Found'
    <3>1. SUFFICES ASSUME PutBefore', fsx'.seen # "out"
                   PROVE  At("identity")' /\ fsx'.exists /\ fs'[From].id = "out"
      BY <2>4 DEF Found
    <3>2. Shizuku /\ fs["dst"] = Entry("file", "out")
      BY <1>0, <1>1, <1>2, <2>2, <2>4, <3>1 DEF Found, PutBefore, Rules, Keeps
    <3>3. Present("dst") /\ fs["dst"].id = "out" /\ ~PlainRename
      BY <3>2 DEF Entry, Present, PlainRename
    <3>4. fsx.exists /\ Renames = "swaps"
      <4>1. fsx.exists \in BOOLEAN
        BY <1>0 DEF FsCallStates
      <4> QED
        BY <1>5, <3>3, <4>1 DEF Renames
    <3> QED
      BY <2>2, <2>4, <2>6, <3>2, <3>3, <3>4 DEF KeepsSeen
  <2> QED
    BY <2>8, <2>9, <2>10, <2>11, <2>12 DEF FsInv
<1> QED
  BY <1>3, <1>4, <1>5 DEF FsRename, Breaks

\* What the turn to the rollback leaves alone.
LEMMA ToRollbackFields ==
  ASSUME FsTypeOK, NEW e, ToRollback(e)
  PROVE  /\ Keeps /\ KeepsSeen /\ fsx'.at = fsx.at /\ fsx'.phase = "rollback"
         /\ fsx'.locked = fsx.locked /\ fsx'.err = e /\ fsx'.committed = fsx.committed
<1>1. fsx \in FsCallStates
  BY DEF FsTypeOK
<1> QED
  BY <1>1 DEF FsCallStates, ToRollback, Keeps, KeepsSeen

\* What was displaced is compared with what was checked.
LEMMA IdentityInv ==
  ASSUME FsInv, FsIdentity
  PROVE  FsInv'
<1>0. FsTypeOK /\ Phases /\ Whole /\ Careful /\ Claimed /\ Found
  BY DEF FsInv
<1>1. /\ Begin("identity") /\ At("identity") /\ fsx.phase = "running" /\ Rules("identity")
      /\ fs' = fs
  BY <1>0, StepRules DEF FsIdentity, Begin, At
<1>2. outside' = outside /\ fsHost' = fsHost
  BY DEF FsIdentity, Begin, Other
<1>3. CASE (~fsx.exists \/ fs[From].id = fsx.seen) /\ Next1
  BY <1>1, <1>3, TakenInv
<1>4. CASE fsx.exists /\ ToRollback("changed")
  <2>1. /\ Keeps /\ KeepsSeen /\ fsx'.at = fsx.at /\ fsx'.phase = "rollback"
        /\ fsx'.err = "changed" /\ fsx'.committed = fsx.committed
    BY <1>0, <1>4, ToRollbackFields
  <2>2. Behind' = Behind /\ (Shizuku' <=> Shizuku) /\ From' = From
    BY <2>1, SameBehind, SameProgram DEF Keeps
  <2>3. FsTypeOK'
    BY <1>0, <1>1, <1>2, <2>1 DEF FsTypeOK, Keeps
  <2>4. Phases' /\ Careful'
    BY <1>0, <1>1, <1>2, <1>4, <2>1, <2>2
    DEF Phases, Careful, Keeps, KeepsSeen, FsEarly, FsOver, Rules
  <2>5. Whole'
    BY <1>0, <1>1, <2>1, <2>2 DEF Whole, Keeps, Present
  <2>6. Claimed'
    <3>1. Untouched' <=> Untouched
      BY <1>1, <1>2 DEF Untouched
    <3> QED
      BY <1>0, <1>1, <2>1, <2>2, <3>1 DEF Claimed, Keeps, FsEarly, FsOver
  <2>7. Found'
    BY <1>0, <1>1, <1>2, <2>1, <2>2 DEF Found, PutBefore, Keeps, KeepsSeen, Entry, FsOver, Rules
  <2> QED
    BY <2>3, <2>4, <2>5, <2>6, <2>7 DEF FsInv
<1> QED
  BY <1>3, <1>4 DEF FsIdentity

\* The exchange back, or what it leaves when it fails.
LEMMA RollbackInv ==
  ASSUME FsInv, FsRollback
  PROVE  FsInv'
<1>0. FsTypeOK /\ Phases /\ Whole /\ Careful /\ Claimed /\ Found /\ fsx \in FsCallStates
  BY DEF FsInv, FsTypeOK
<1>1. fsx.phase = "rollback" /\ "rename" \in Behind /\ ~fsx.rolled /\ fsx.err # "cancelled"
  BY <1>0 DEF FsRollback, Phases, Claimed, FsOver
<1>2. outside' = outside /\ fsHost' = fsHost
  BY DEF FsRollback, Other
<1> DEFINE Kept == /\ fsx' \in FsCallStates' /\ fsx'.call = fsx.call /\ fsx'.by = fsx.by
                   /\ fsx'.over = fsx.over /\ fsx'.requested = fsx.requested
                   /\ fsx'.committed = fsx.committed /\ fsx'.at = fsx.at /\ fsx'.seen = fsx.seen
                   /\ fsx'.exists = fsx.exists /\ fsx'.err = fsx.err /\ fsx'.phase = "failing"
           Back == fs' = Swapped /\ (fsx'.rolled <=> fsx.err # "changed")
           Stuck == fs' = fs /\ fsx'.rolled = FALSE /\ (Shizuku => fsx'.verified = FALSE)
           Ended(ok) == fsx' = [fsx EXCEPT !.phase = "failing", !.locked = FALSE,
                                  !.rolled = ok /\ fsx.err # "changed",
                                  !.verified = @ /\ (ok \/ ~Shizuku)]
           Unsure == fsx' = [fsx EXCEPT !.phase = "failing", !.verified = FALSE,
                                        !.rolled = fsx.err # "changed"]
<1>3. Kept /\ (Back \/ Stuck)
  <2>1. ASSUME NEW ok \in BOOLEAN, Ended(ok)
        PROVE  /\ Kept /\ (fsx'.rolled <=> ok /\ fsx.err # "changed")
               /\ (Shizuku /\ ~ok => fsx'.verified = FALSE)
    <3> DEFINE r == ok /\ fsx.err # "changed"
               v == fsx.verified /\ (ok \/ ~Shizuku)
    <3>1. fsx' = [fsx EXCEPT !.phase = "failing", !.locked = FALSE, !.rolled = r, !.verified = v]
      BY <2>1
    <3>2. r \in BOOLEAN /\ v \in BOOLEAN /\ (Shizuku /\ ~ok => v = FALSE)
      BY <1>0 DEF FsCallStates
    <3> HIDE DEF r, v
    <3>3. Kept /\ fsx'.rolled = r /\ fsx'.verified = v
      BY <1>0, <3>1, <3>2 DEF FsCallStates
    <3> QED
      BY <3>2, <3>3 DEF r
  <2>2. ASSUME Unsure
        PROVE  Kept /\ (fsx'.rolled <=> fsx.err # "changed")
    <3> DEFINE r == fsx.err # "changed"
    <3>1. fsx' = [fsx EXCEPT !.phase = "failing", !.verified = FALSE, !.rolled = r] /\ r \in BOOLEAN
      BY <2>2
    <3> HIDE DEF r
    <3>2. Kept /\ fsx'.rolled = r
      BY <1>0, <3>1 DEF FsCallStates
    <3> QED
      BY <3>2 DEF r
  <2>3. \/ fs' = Swapped /\ Ended(TRUE)
        \/ fs' = fs /\ Ended(FALSE)
        \/ fs' = Swapped /\ Unsure
    BY DEF FsRollback
  <2>4. Ended(TRUE) => Kept /\ (fsx'.rolled <=> fsx.err # "changed")
    BY <2>1
  <2>5. Ended(FALSE) => Kept /\ fsx'.rolled = FALSE /\ (Shizuku => fsx'.verified = FALSE)
    <3>1. Ended(FALSE) => fsx'.rolled \in BOOLEAN
      BY <2>1 DEF FsCallStates
    <3> HIDE DEF Ended
    <3> QED
      BY <2>1, <3>1
  <2> HIDE DEF Ended, Unsure
  <2> QED
    BY <2>2, <2>3, <2>4, <2>5
<1> HIDE DEF Back, Stuck, Ended, Unsure
<1>4. Behind' = Behind /\ (Shizuku' <=> Shizuku) /\ From' = From
  BY <1>3, SameBehind, SameProgram
<1>5. From \in {"src", "pub"} /\ fs \in [Slots -> Entries]
  BY <1>0 DEF From, FsTypeOK
<1>6. Back => fs' \in [Slots -> Entries] /\ fs'["dst"] = fs[From] /\ fs'[From] = fs["dst"]
  BY <1>5 DEF Back, Swapped, Slots
<1>7. FsTypeOK'
  BY <1>0, <1>2, <1>3, <1>5, <1>6 DEF FsTypeOK, Stuck
<1>8. Phases' /\ Careful'
  BY <1>0, <1>2, <1>3, <1>4 DEF Phases, Careful, FsEarly, FsOver
<1>9. Whole'
  <2>1. Present("dst")' /\ fsx.call.op # "delete" => fs'["dst"].body = Pieces \/ fsx'.rolled
    <3>1. CASE Back
      BY <1>0, <1>1, <1>6, <3>1 DEF Whole, Back, Present
    <3>2. CASE Stuck
      BY <1>0, <1>1, <3>2 DEF Whole, Stuck, Present
    <3> QED
      BY <1>3, <3>1, <3>2
  <2> QED
    BY <1>1, <1>3, <1>4, <2>1 DEF Whole, At
<1>10. Claimed'
  BY <1>0, <1>1, <1>3, <1>4 DEF Claimed, FsEarly, FsOver
<1>11. Found'
  <2>1. SUFFICES ASSUME PutBefore', fsx'.seen # "out"
                 PROVE  fs'["dst"].id = "out" \/ (fs'[From].id = "out" /\ ~fsx'.verified)
    BY <1>1, <1>3, <1>4 DEF Found, FsOver
  <2>2. Shizuku /\ fs[From].id = "out"
    BY <1>0, <1>1, <1>2, <1>3, <1>4, <2>1 DEF Found, PutBefore, At, FsOver
  <2> QED
    BY <1>3, <1>6, <2>2 DEF Stuck
<1> QED
  BY <1>7, <1>8, <1>9, <1>10, <1>11 DEF FsInv

\* The steps after the rename that take away what it displaced.
LEMMA DisplacedInv ==
  ASSUME FsInv, Begin("displace"), fs' \in [Slots -> Entries], fs'["dst"] = fs["dst"],
         \/ UNCHANGED fsx
         \/ Next1
         \/ \E e : e # "cancelled" /\ Fail(e)
         \/ fsx.exists /\ ToRollback("io")
  PROVE  FsInv'
<1>0. FsTypeOK /\ Phases /\ Whole /\ Careful /\ Claimed /\ Found
  BY DEF FsInv
<1>1. At("displace") /\ fsx.phase = "running" /\ Rules("displace") /\ ~At("identity")
  BY <1>0, StepRules, OneStep DEF Begin, At
<1>2. outside' = outside /\ fsHost' = fsHost
  BY DEF Begin, Other
<1>3. /\ Keeps /\ KeepsSeen /\ fsx'.committed = fsx.committed /\ fsx'.err # "cancelled"
      /\ \/ fsx'.phase = "running" /\ fsx'.locked = fsx.locked
         \/ fsx'.phase = "failing"
         \/ fsx'.phase = "rollback" /\ fsx'.err = "io" /\ fsx.exists
      /\ (fsx'.at = fsx.at \/ fsx'.at = fsx.at + 1)
  <2>1. fsx.err # "cancelled"
    BY <1>0, <1>1 DEF Claimed, FsOver
  <2>2. CASE UNCHANGED fsx
    BY <1>0, <1>1, <2>1, <2>2 DEF FsTypeOK, FsCallStates, Keeps, KeepsSeen
  <2>3. CASE Next1
    BY <1>0, <1>1, <2>1, <2>3, NextFields
  <2>4. CASE \E e : e # "cancelled" /\ Fail(e)
    <3>1. PICK e : e # "cancelled" /\ Fail(e)
      BY <2>4
    <3>2. /\ Keeps /\ KeepsSeen /\ fsx'.at = fsx.at /\ fsx'.phase = "failing"
          /\ fsx'.err = e /\ fsx'.committed = fsx.committed
      BY <1>0, <3>1, FailFields
    <3> QED
      BY <3>1, <3>2
  <2>5. CASE fsx.exists /\ ToRollback("io")
    BY <1>0, <2>5, ToRollbackFields
  <2> QED
    BY <2>2, <2>3, <2>4, <2>5
<1>4. /\ Behind' = Behind \/ Behind' = Behind \cup {"displace"}
      /\ (Shizuku' <=> Shizuku) /\ From' = From /\ Program' = Program
  BY <1>0, <1>1, <1>3, SameBehind, NextBehind, SameProgram DEF Keeps
<1>5. ~At("identity")'
  <2>1. CASE fsx'.at = fsx.at
    BY <1>1, <1>4, <2>1 DEF At
  <2>2. CASE fsx'.at = fsx.at + 1
    BY <1>0, <1>1, <1>3, <2>2, NextBehind DEF Keeps
  <2> QED
    BY <1>3, <2>1, <2>2
<1>6. FsTypeOK'
  BY <1>0, <1>2, <1>3 DEF FsTypeOK, Keeps
<1>7. Phases' /\ Careful'
  BY <1>0, <1>1, <1>2, <1>3, <1>4 DEF Phases, Careful, Keeps, KeepsSeen, FsEarly, FsOver, Rules
<1>8. Whole'
  BY <1>0, <1>1, <1>3, <1>4, <1>5 DEF Whole, Keeps, Present, Rules
<1>9. Claimed'
  <2>1. Untouched' <=> Untouched
    BY <1>2 DEF Untouched
  <2> QED
    BY <1>0, <1>1, <1>3, <1>4, <2>1 DEF Claimed, Keeps, FsEarly, FsOver
<1>10. Found'
  <2>1. ~(PutBefore /\ fsx.seen # "out")
    BY <1>0, <1>1 DEF Found, Rules, FsOver
  <2> QED
    BY <1>1, <1>2, <1>3, <1>4, <2>1 DEF Found, PutBefore, Keeps, KeepsSeen, Rules
<1> QED
  BY <1>6, <1>7, <1>8, <1>9, <1>10 DEF FsInv

\* The removal of what the exchange displaced.
LEMMA DisplaceInv ==
  ASSUME FsInv, FsDisplace
  PROVE  FsInv'
<1>0. FsTypeOK /\ fs \in [Slots -> Entries] /\ Begin("displace") /\ fsx.late # "cancelled"
  BY DEF FsInv, FsTypeOK, FsCallStates, FsDisplace
<1>1. From \in {"src", "pub"} /\ NoEntry \in Entries
  BY DEF From, NoEntry, Entries, Kinds, Ids
<1>2. ASSUME UNCHANGED fs PROVE fs' \in [Slots -> Entries] /\ fs'["dst"] = fs["dst"]
  BY <1>0, <1>2
<1>3. ASSUME fs' = [fs EXCEPT ![From] = NoEntry]
      PROVE  fs' \in [Slots -> Entries] /\ fs'["dst"] = fs["dst"]
  BY <1>0, <1>1, <1>3 DEF Slots
<1>4. ASSUME fs' = [fs EXCEPT ![From].body = @ - 1], fs[From].body > 0
      PROVE  fs' \in [Slots -> Entries] /\ fs'["dst"] = fs["dst"]
  <2> DEFINE y == [fs[From] EXCEPT !.body = @ - 1]
  <2>1. fs' = [fs EXCEPT ![From] = y]
    BY <1>4
  <2>2. fs[From] \in Entries
    BY <1>0, <1>1 DEF Slots
  <2>3. y \in Entries
    BY <1>4, <2>2 DEF Entries
  <2> HIDE DEF y
  <2> QED
    BY <1>0, <1>1, <2>1, <2>3 DEF Slots
<1>5. \/ UNCHANGED fsx
      \/ Next1
      \/ \E e : e # "cancelled" /\ Fail(e)
      \/ fsx.exists /\ ToRollback("io")
  BY <1>0 DEF FsDisplace
<1>6. \/ UNCHANGED fs
      \/ fs' = [fs EXCEPT ![From] = NoEntry]
      \/ fs' = [fs EXCEPT ![From].body = @ - 1] /\ fs[From].body > 0
  BY DEF FsDisplace
<1>7. fs' \in [Slots -> Entries] /\ fs'["dst"] = fs["dst"]
  BY <1>2, <1>3, <1>4, <1>6
<1> QED
  BY <1>0, <1>5, <1>7, DisplacedInv

\* Neither mkdir nor delete renames.
LEMMA NoRename ==
  ASSUME FsTypeOK, fsx.call.op \in {"mkdir", "delete"}
  PROVE  "rename" \notin Behind
<1>1. Ordered(Program, fsx.call, Shizuku)
  BY ProgramOrdered
<1> QED
  BY <1>1 DEF Ordered, Behind, Before

\* A step that changes the destination in place.
LEMMA InPlaceInv ==
  ASSUME FsInv, NEW s \in {"mkdir", "delete"}, Begin(s),
         fs' \in [Slots -> Entries], fs'["src"] = fs["src"], fs'["pub"] = fs["pub"],
         s = "mkdir" => fs'["dst"] = fs["dst"] \/ (~Present("dst") /\ fs'["dst"].body = Pieces),
         Keeps, KeepsSeen, fsx'.committed <=> fsx.committed \/ Shizuku,
         fsx'.at = fsx.at \/ fsx'.at = fsx.at + 1,
         \/ fsx'.phase = "running" /\ fsx'.locked = fsx.locked /\ fsx'.err = fsx.err
         \/ fsx'.phase = "failing" /\ fsx'.err = "io"
  PROVE  FsInv'
<1>0. FsTypeOK /\ Phases /\ Whole /\ Careful /\ Claimed /\ Found
  BY DEF FsInv
<1>1. /\ At(s) /\ fsx.phase = "running" /\ Rules(s) /\ ~Refused /\ Program[fsx.at] = s
      /\ fsx.call.op = s /\ "rename" \notin Behind
  BY <1>0, StepRules, NoRename DEF Begin, At, Rules
<1>2. outside' = outside /\ fsHost' = fsHost
  BY DEF Begin, Other
<1>3. /\ Behind' = Behind \/ Behind' = Behind \cup {s}
      /\ (Shizuku' <=> Shizuku) /\ From' = From /\ Program' = Program
  BY <1>0, <1>1, SameBehind, NextBehind, SameProgram DEF Keeps
<1>4. ~At("identity")'
  <2>1. CASE fsx'.at = fsx.at
    BY <1>1, <1>3, <2>1 DEF At
  <2>2. CASE fsx'.at = fsx.at + 1
    BY <1>0, <1>1, <2>2, NextBehind DEF Keeps
  <2> QED
    BY <2>1, <2>2
<1>5. Shizuku => ~fsx.requested
  <2>1. Shizuku => s \in Asks
    BY DEF Asks
  <2> QED
    BY <1>1, <2>1 DEF Refused
<1>6. FsTypeOK'
  BY <1>0, <1>2 DEF FsTypeOK, Keeps
<1>7. Phases' /\ Careful'
  BY <1>0, <1>1, <1>2, <1>3 DEF Phases, Careful, Keeps, KeepsSeen, FsEarly, FsOver
<1>8. Whole'
  BY <1>0, <1>1, <1>3, <1>4 DEF Whole, Keeps, Present
<1>9. Claimed'
  BY <1>0, <1>1, <1>3, <1>5 DEF Claimed, Keeps, FsEarly, FsOver
<1>10. Found'
  <2>1. PutBefore' => PutBefore /\ s = "mkdir"
    BY <1>1, <1>2, <1>3 DEF PutBefore, Keeps
  <2>2. PutBefore => fs["dst"] = Entry("file", "out") /\ Present("dst")
    BY <1>0, <1>1 DEF Found, Entry, Present
  <2> QED
    BY <1>1, <1>3, <2>1, <2>2 DEF Found, Entry
<1> QED
  BY <1>6, <1>7, <1>8, <1>9, <1>10 DEF FsInv

\* mkdir, the missing parents first.
LEMMA MkdirInv ==
  ASSUME FsInv, FsMkdir
  PROVE  FsInv'
<1>0. FsTypeOK /\ fsx \in FsCallStates /\ fs \in [Slots -> Entries] /\ Begin("mkdir")
  BY DEF FsInv, FsTypeOK, FsMkdir
<1>1. CASE Next1 /\ UNCHANGED fs
  BY <1>0, <1>1, TakenInv
<1>2. CASE \E e : e # "cancelled" /\ Fail(e) /\ UNCHANGED fs
  BY <1>0, <1>2, BreaksInv
<1> DEFINE l == fsx.left - 1
           c == fsx.committed \/ Shizuku
           n == IF fsx.left = 1 THEN fsx.at + 1 ELSE fsx.at
           y == Entry("dir", "new")
<1>3. CASE /\ ~Present("dst")
           /\ fs' = IF fsx.left = 1 THEN [fs EXCEPT !["dst"] = y] ELSE fs
           /\ \/ fsx' = [fsx EXCEPT !.left = l, !.committed = c, !.at = n]
              \/ fsx' = [fsx EXCEPT !.committed = c, !.left = l, !.err = "io", !.phase = "failing"]
  <2>1. c \in BOOLEAN /\ n \in Nat \ {0}
    BY <1>0 DEF FsCallStates
  <2>2. y \in Entries /\ y.body = Pieces
    BY FilesystemAssumption DEF Entry, Entries, Kinds, Ids
  <2> HIDE DEF l, c, n, y
  <2>3. /\ fs' \in [Slots -> Entries] /\ fs'["src"] = fs["src"] /\ fs'["pub"] = fs["pub"]
        /\ fs'["dst"] = fs["dst"] \/ (~Present("dst") /\ fs'["dst"].body = Pieces)
    BY <1>0, <1>3, <2>2 DEF Slots
  <2>4. /\ Keeps /\ KeepsSeen /\ fsx'.committed = c /\ (fsx'.at = n \/ fsx'.at = fsx.at)
        /\ \/ fsx'.phase = fsx.phase /\ fsx'.locked = fsx.locked /\ fsx'.err = fsx.err
           \/ fsx'.phase = "failing" /\ fsx'.err = "io"
    <3>1. CASE fsx' = [fsx EXCEPT !.left = l, !.committed = c, !.at = n]
      BY <1>0, <2>1, <3>1 DEF FsCallStates, Keeps, KeepsSeen
    <3>2. CASE fsx' = [fsx EXCEPT !.committed = c, !.left = l, !.err = "io", !.phase = "failing"]
      BY <1>0, <2>1, <3>2 DEF FsCallStates, Keeps, KeepsSeen
    <3> QED
      BY <1>3, <3>1, <3>2
  <2>5. /\ fsx'.committed <=> fsx.committed \/ Shizuku
        /\ fsx'.at = fsx.at \/ fsx'.at = fsx.at + 1
    BY <2>4 DEF c, n
  <2>6. fsx.phase = "running"
    BY <1>0 DEF Begin, At
  <2> QED
    BY <1>0, <2>3, <2>4, <2>5, <2>6, InPlaceInv
<1> QED
  BY <1>1, <1>2, <1>3 DEF FsMkdir, Breaks

\* delete: the children first, each unlink a publication of its own.
LEMMA DeleteInv ==
  ASSUME FsInv, FsDelete
  PROVE  FsInv'
<1>0. FsTypeOK /\ fsx \in FsCallStates /\ fs \in [Slots -> Entries] /\ Begin("delete")
  BY DEF FsInv, FsTypeOK, FsDelete
<1>1. CASE \E e : e # "cancelled" /\ Fail(e) /\ UNCHANGED fs
  BY <1>0, <1>1, BreaksInv
<1> DEFINE Commits(next) == fsx' = [fsx EXCEPT !.at = @ + next, !.committed = @ \/ Shizuku]
           y == [fs["dst"] EXCEPT !.body = @ - 1]
<1>2. \/ \E e : e # "cancelled" /\ Fail(e) /\ UNCHANGED fs
      \/ fs["dst"].body > 0 /\ fs' = [fs EXCEPT !["dst"] = y] /\ Commits(0)
      \/ fs' = [fs EXCEPT !["dst"] = NoEntry] /\ Commits(1)
  BY DEF FsDelete, Breaks
<1>3. ASSUME NEW next \in {0, 1}, Commits(next)
      PROVE  /\ Keeps /\ KeepsSeen /\ (fsx'.committed <=> fsx.committed \/ Shizuku)
             /\ fsx'.at = fsx.at \/ fsx'.at = fsx.at + 1
             /\ fsx'.phase = "running" /\ fsx'.locked = fsx.locked /\ fsx'.err = fsx.err
  <2> DEFINE n == fsx.at + next
             c == fsx.committed \/ Shizuku
  <2>1. c \in BOOLEAN /\ n \in Nat \ {0} /\ fsx' = [fsx EXCEPT !.at = n, !.committed = c]
    BY <1>0, <1>3 DEF FsCallStates
  <2>2. fsx.phase = "running" /\ (n = fsx.at \/ n = fsx.at + 1)
    BY <1>0 DEF Begin, At, FsCallStates
  <2> HIDE DEF n, c, Commits
  <2>3. /\ Keeps /\ KeepsSeen /\ fsx'.committed = c /\ fsx'.at = n
        /\ fsx'.phase = fsx.phase /\ fsx'.locked = fsx.locked /\ fsx'.err = fsx.err
    BY <1>0, <2>1 DEF FsCallStates, Keeps, KeepsSeen
  <2> QED
    BY <2>2, <2>3 DEF c
<1>4. fs["dst"].body > 0 => y \in Entries
  <2>1. fs["dst"] \in Entries
    BY <1>0 DEF Slots
  <2> QED
    BY <2>1 DEF Entries
<1>5. NoEntry \in Entries
  BY DEF NoEntry, Entries, Kinds, Ids
<1> HIDE DEF y
<1>6. ASSUME NEW z \in Entries, fs' = [fs EXCEPT !["dst"] = z]
      PROVE  fs' \in [Slots -> Entries] /\ fs'["src"] = fs["src"] /\ fs'["pub"] = fs["pub"]
  BY <1>0, <1>6 DEF Slots
<1>7. CASE fs["dst"].body > 0 /\ fs' = [fs EXCEPT !["dst"] = y] /\ Commits(0)
  <2>1. fs' \in [Slots -> Entries] /\ fs'["src"] = fs["src"] /\ fs'["pub"] = fs["pub"]
    BY <1>4, <1>6, <1>7
  <2>2. /\ Keeps /\ KeepsSeen /\ (fsx'.committed <=> fsx.committed \/ Shizuku)
        /\ fsx'.at = fsx.at \/ fsx'.at = fsx.at + 1
        /\ fsx'.phase = "running" /\ fsx'.locked = fsx.locked /\ fsx'.err = fsx.err
    BY <1>3, <1>7
  <2> QED
    BY <1>0, <2>1, <2>2, InPlaceInv
<1>8. CASE fs' = [fs EXCEPT !["dst"] = NoEntry] /\ Commits(1)
  <2>1. fs' \in [Slots -> Entries] /\ fs'["src"] = fs["src"] /\ fs'["pub"] = fs["pub"]
    BY <1>5, <1>6, <1>8
  <2>2. /\ Keeps /\ KeepsSeen /\ (fsx'.committed <=> fsx.committed \/ Shizuku)
        /\ fsx'.at = fsx.at \/ fsx'.at = fsx.at + 1
        /\ fsx'.phase = "running" /\ fsx'.locked = fsx.locked /\ fsx'.err = fsx.err
    BY <1>3, <1>8
  <2> QED
    BY <1>0, <2>1, <2>2, InPlaceInv
<1> QED
  BY <1>1, <1>2, <1>7, <1>8

\* The end of a call: what was built or staged goes, what was published or put back stays.
LEMMA EndInv ==
  ASSUME FsInv, Other, fs' \in [Slots -> Entries], fs'["dst"] = fs["dst"], fs'["src"] = fs["src"],
         fsx.phase \in {"failing", "tidying", "running"}, fsx'.phase \in {"tidying", "done"},
         ~At("identity"), Keeps, fsx'.at = fsx.at,
         fsx'.err = fsx.err \/ (fsx.requested /\ fsx'.err = "cancelled"),
         fsx'.committed = fsx.committed, fsx'.seen = fsx.seen, fsx'.exists = fsx.exists,
         fsx'.verified => fsx.verified \/ ~Shizuku,
         Shizuku => fs'["pub"] = fs["pub"] \/ fsx.verified
  PROVE  FsInv'
<1>0. FsTypeOK /\ Phases /\ Whole /\ Careful /\ Claimed /\ Found
  BY DEF FsInv
<1>1. outside' = outside /\ fsHost' = fsHost
  BY DEF Other
<1>2. Behind' = Behind /\ (Shizuku' <=> Shizuku) /\ From' = From
  BY SameBehind, SameProgram DEF Keeps
<1>3. FsTypeOK'
  BY <1>0, <1>1 DEF FsTypeOK, Keeps
<1>4. Phases' /\ Careful'
  BY <1>0, <1>1, <1>2 DEF Phases, Careful, Keeps, FsEarly, FsOver
<1>5. Whole'
  BY <1>0, <1>2 DEF Whole, Keeps, Present, At
<1>6. Claimed'
  <2>1. Untouched' <=> Untouched
    BY <1>1 DEF Untouched
  <2> QED
    BY <1>0, <1>2, <2>1 DEF Claimed, Keeps, FsEarly, FsOver
<1>7. Found'
  <2>1. PutBefore' <=> PutBefore
    BY <1>1, <1>2 DEF PutBefore, Keeps
  <2>2. SUFFICES ASSUME PutBefore, "rename" \in Behind, fsx.seen # "out"
                 PROVE  fs'["dst"].id = "out" \/ (fs'[From].id = "out" /\ ~fsx'.verified)
    BY <1>0, <1>2, <2>1 DEF Found, FsOver, Entry
  <2>3. Shizuku /\ (fs["dst"].id = "out" \/ (fs[From].id = "out" /\ ~fsx.verified))
    BY <1>0, <2>2 DEF Found, PutBefore
  <2> QED
    BY <2>3 DEF From
<1> QED
  BY <1>3, <1>4, <1>5, <1>6, <1>7 DEF FsInv

\* cleanup_primitive_path and its native counterpart.
LEMMA CleanupInv ==
  ASSUME FsInv, FsCleanup
  PROVE  FsInv'
<1>0. /\ FsTypeOK /\ fsx \in FsCallStates /\ fs \in [Slots -> Entries] /\ fsx.phase = "failing"
      /\ Other /\ ~At("identity")
  BY DEF FsInv, FsTypeOK, FsCleanup, At
<1>1. NoEntry \in Entries
  BY DEF NoEntry, Entries, Kinds, Ids
<1>2. ASSUME NEW v \in BOOLEAN, fsx' = [fsx EXCEPT !.phase = "tidying", !.verified = v]
      PROVE  /\ Keeps /\ fsx'.at = fsx.at /\ fsx'.err = fsx.err /\ fsx'.committed = fsx.committed
             /\ fsx'.seen = fsx.seen /\ fsx'.exists = fsx.exists /\ fsx'.verified = v
             /\ fsx'.phase = "tidying"
  BY <1>0, <1>2 DEF FsCallStates, Keeps
<1> DEFINE w == ~Shizuku /\ fsx.call.op # "extract"
           u == fsx.verified /\ ~(~Shizuku /\ fsx.call.op = "extract" /\ fsx.owned)
<1>3. CASE Cleans /\ fs' = [fs EXCEPT !["pub"] = NoEntry] /\ fsx' = [fsx EXCEPT !.phase = "tidying"]
  <2>1. fs' \in [Slots -> Entries] /\ fs'["dst"] = fs["dst"] /\ fs'["src"] = fs["src"]
    BY <1>0, <1>1, <1>3 DEF Slots
  <2>2. Shizuku => fsx.verified
    BY <1>3 DEF Cleans
  <2>3. /\ Keeps /\ fsx'.at = fsx.at /\ fsx'.err = fsx.err /\ fsx'.committed = fsx.committed
        /\ fsx'.seen = fsx.seen /\ fsx'.exists = fsx.exists /\ fsx'.verified = fsx.verified
        /\ fsx'.phase = "tidying"
    BY <1>0, <1>3 DEF FsCallStates, Keeps
  <2> QED
    BY <1>0, <2>1, <2>2, <2>3, EndInv
<1>4. CASE fs' = fs /\ fsx' = [fsx EXCEPT !.phase = "tidying", !.verified = w]
  <2>1. w \in BOOLEAN /\ (w => ~Shizuku)
    OBVIOUS
  <2> HIDE DEF w
  <2> QED
    BY <1>0, <1>2, <1>4, <2>1, EndInv
<1>5. CASE fs' = fs /\ fsx' = [fsx EXCEPT !.phase = "tidying", !.verified = u]
  <2>1. u \in BOOLEAN /\ (u => fsx.verified)
    BY <1>0 DEF FsCallStates
  <2> HIDE DEF u
  <2> QED
    BY <1>0, <1>2, <1>5, <2>1, EndInv
<1> QED
  BY <1>3, <1>4, <1>5 DEF FsCleanup

\* The end of the steps, and of the Task's temporary.
LEMMA DoneInv ==
  ASSUME FsInv, FsDone \/ FsTidy
  PROVE  FsInv'
<1>0. FsTypeOK /\ fsx \in FsCallStates /\ fs \in [Slots -> Entries] /\ fsx.at \in Nat
  BY DEF FsInv, FsTypeOK, FsCallStates
<1>1. NoEntry \in Entries
  BY DEF NoEntry, Entries, Kinds, Ids
<1>2. CASE FsDone
  <2>1. fs' = fs /\ Other /\ fsx.phase = "running" /\ ~At("identity")
    <3>1. Len(Program) \in Nat
      BY <1>0, ProgramOrdered, LenProperties
    <3> QED
      BY <1>0, <1>2, <3>1 DEF FsDone, At
  <2>2. /\ Keeps /\ fsx'.at = fsx.at /\ fsx'.err = fsx.err /\ fsx'.committed = fsx.committed
        /\ fsx'.seen = fsx.seen /\ fsx'.exists = fsx.exists /\ fsx'.verified = fsx.verified
        /\ fsx'.phase = "tidying"
    BY <1>0, <1>2 DEF FsDone, FsCallStates, Keeps
  <2> QED
    BY <1>0, <2>1, <2>2, EndInv
<1>3. CASE FsTidy
  <2>1. Other /\ fsx.phase = "tidying" /\ ~At("identity")
    BY <1>3 DEF FsTidy, At
  <2>2. /\ fs' \in [Slots -> Entries] /\ fs'["dst"] = fs["dst"] /\ fs'["src"] = fs["src"]
        /\ fs'["pub"] = fs["pub"]
    <3>1. fs' = [fs EXCEPT !["stage"] = NoEntry] \/ fs' = fs
      BY <1>3 DEF FsTidy
    <3> QED
      BY <1>0, <1>1, <3>1 DEF Slots
  <2>3. /\ Keeps /\ fsx'.at = fsx.at /\ fsx'.committed = fsx.committed
        /\ fsx'.err = fsx.err \/ (fsx.requested /\ fsx'.err = "cancelled")
        /\ fsx'.seen = fsx.seen /\ fsx'.exists = fsx.exists /\ (fsx'.verified => fsx.verified)
        /\ fsx'.phase = "done"
    <3>1. PICK v \in {fsx.verified, FALSE} : Ends(v)
      BY <1>3 DEF FsTidy
    <3>2. PICK e \in {fsx.err} \cup (IF fsx.requested /\ v THEN {"cancelled"} ELSE {}) :
            fsx' = [fsx EXCEPT !.phase = "done", !.verified = v, !.err = e]
      BY <3>1 DEF Ends
    <3> QED
      BY <1>0, <3>2 DEF FsCallStates, Keeps
  <2> QED
    BY <1>0, <2>1, <2>2, <2>3, EndInv
<1> QED
  BY <1>2, <1>3

\* A cancellation that is granted has found nothing committed and no publication under way.
LEMMA CancelInv ==
  ASSUME FsInv, FsCancel
  PROVE  FsInv'
<1>0. FsTypeOK /\ Phases /\ Whole /\ Careful /\ Claimed /\ Found /\ fsx \in FsCallStates
  BY DEF FsInv, FsTypeOK
<1>1. /\ fs' = fs /\ outside' = outside /\ fsHost' = fsHost /\ ~fsx.locked /\ ~fsx.committed
      /\ fsx.call.op \in {"download", "archive", "extract"}
  BY DEF FsCancel, Other, is_filesystem_task
<1>2. /\ fsx' \in FsCallStates' /\ fsx'.call = fsx.call /\ fsx'.by = fsx.by /\ fsx'.over = fsx.over
      /\ fsx'.rolled = fsx.rolled /\ KeepsSeen /\ fsx'.at = fsx.at /\ fsx'.phase = fsx.phase
      /\ fsx'.locked = fsx.locked /\ fsx'.err = fsx.err /\ fsx'.committed = fsx.committed
  BY <1>0 DEF FsCancel, FsCallStates, KeepsSeen
<1>3. Behind' = Behind /\ (Shizuku' <=> Shizuku) /\ From' = From /\ (At("identity")' <=> At("identity"))
  BY <1>2, SameBehind, SameProgram DEF At
<1>4. FsTypeOK'
  BY <1>0, <1>1, <1>2 DEF FsTypeOK
<1>5. Phases' /\ Careful'
  BY <1>0, <1>1, <1>2, <1>3 DEF Phases, Careful, KeepsSeen, FsEarly, FsOver
<1>6. Whole'
  BY <1>0, <1>1, <1>2, <1>3 DEF Whole, Present
<1>7. Claimed'
  <2>1. Untouched' <=> Untouched
    BY <1>1 DEF Untouched
  <2> QED
    BY <1>0, <1>1, <1>2, <1>3, <2>1 DEF Claimed, FsEarly, FsOver
<1>8. Found'
  BY <1>0, <1>1, <1>2, <1>3 DEF Found, PutBefore, KeepsSeen, Entry, FsOver
<1> QED
  BY <1>4, <1>5, <1>6, <1>7, <1>8 DEF FsInv

\* Another process replaces or removes the destination.
LEMMA OutsideInv ==
  ASSUME FsInv, FsOutside
  PROVE  FsInv'
<1>0. /\ FsTypeOK /\ Phases /\ Whole /\ Careful /\ Claimed /\ Found
      /\ fs \in [Slots -> Entries] /\ fsx \in FsCallStates /\ outside.count \in Nat
  BY DEF FsInv, FsTypeOK
<1>1. fsx' = fsx /\ fsHost' = fsHost /\ fsx.phase # "idle"
  BY DEF FsOutside
<1>2. PICK k \in {"none", "file"} :
        /\ fs' = [fs EXCEPT !["dst"] = IF k = "none" THEN NoEntry ELSE Entry("file", "out")]
        /\ outside' = [count |-> outside.count + 1, put |-> k, early |-> ~Renamed]
  BY DEF FsOutside
<1> DEFINE y == IF k = "none" THEN NoEntry ELSE Entry("file", "out")
<1>3. /\ y \in Entries /\ y.id # "new" /\ (y.kind = "none" <=> k = "none") /\ y.kind # "dir"
      /\ (k = "file" => y = Entry("file", "out") /\ y.body = Pieces)
  BY FilesystemAssumption DEF NoEntry, Entry, Entries, Kinds, Ids
<1>4. fs' = [fs EXCEPT !["dst"] = y]
  BY <1>2
<1> HIDE DEF y
<1>5. /\ fs' \in [Slots -> Entries] /\ fs'["dst"] = y /\ fs'["src"] = fs["src"]
      /\ fs'["pub"] = fs["pub"]
  BY <1>0, <1>3, <1>4 DEF Slots
<1>6. /\ outside'.count > 0 /\ outside'.put = k /\ (outside'.early => "rename" \notin Behind)
      /\ outside' \in [count : Nat, put : {"none", "file"}, early : BOOLEAN]
  <2> DEFINE e == ~Renamed
             n == outside.count + 1
  <2>1. e \in BOOLEAN /\ (e => "rename" \notin Behind) /\ n \in Nat /\ n > 0
    BY <1>0, RenamedBehind DEF Renamed
  <2>2. outside' = [count |-> n, put |-> k, early |-> e]
    BY <1>2
  <2> HIDE DEF e, n
  <2> QED
    BY <2>1, <2>2
<1>7. /\ Behind' = Behind /\ (Shizuku' <=> Shizuku) /\ From' = From
      /\ (At("identity")' <=> At("identity")) /\ From \in {"src", "pub"}
  BY <1>1, SameBehind, SameProgram DEF At, From
<1>8. FsTypeOK'
  BY <1>0, <1>1, <1>5, <1>6 DEF FsTypeOK, FsCallStates
<1>9. Phases' /\ Careful'
  BY <1>0, <1>1, <1>7 DEF Phases, Careful, FsEarly, FsOver
<1>10. Whole'
  BY <1>0, <1>1, <1>3, <1>5, <1>7 DEF Whole, Present
<1>11. Claimed'
  <2>1. Untouched'
    BY <1>3, <1>5, <1>6 DEF Untouched
  <2> QED
    BY <1>0, <1>1, <1>7, <2>1 DEF Claimed, FsEarly, FsOver
<1>12. Found'
  <2>1. PutBefore' => k = "file" /\ "rename" \notin Behind
    BY <1>6 DEF PutBefore
  <2>2. Entry("file", "out")' = Entry("file", "out")
    BY DEF Entry
  <2> QED
    BY <1>3, <1>5, <1>7, <2>1, <2>2 DEF Found
<1> QED
  BY <1>8, <1>9, <1>10, <1>11, <1>12 DEF FsInv

\* Nothing the invariant is about changes.
LEMMA StillInv ==
  ASSUME FsInv, fs' = fs, fsx' = fsx, fsHost' = fsHost, outside' = outside
  PROVE  FsInv'
<1>0. FsTypeOK /\ Phases /\ Whole /\ Careful /\ Claimed /\ Found
  BY DEF FsInv
<1>1. /\ Behind' = Behind /\ (Shizuku' <=> Shizuku) /\ From' = From
      /\ (At("identity")' <=> At("identity"))
  BY SameBehind, SameProgram DEF At
<1>2. FsTypeOK'
  BY <1>0 DEF FsTypeOK, FsCallStates
<1>3. Phases' /\ Careful' /\ Whole'
  BY <1>0, <1>1 DEF Phases, Careful, Whole, Present, FsEarly, FsOver
<1>4. Claimed'
  <2>1. Untouched' <=> Untouched
    BY DEF Untouched
  <2> QED
    BY <1>0, <1>1, <2>1 DEF Claimed, FsEarly, FsOver
<1>5. Found'
  BY <1>0, <1>1 DEF Found, PutBefore, Entry, FsOver
<1> QED
  BY <1>2, <1>3, <1>4, <1>5 DEF FsInv

\* Admission: the call is new, and nothing has touched its destination.
LEMMA SubmitInv ==
  ASSUME FsInv, FsSubmit
  PROVE  FsInv'
<1>0. FsTypeOK /\ Phases /\ Whole /\ Careful /\ Claimed /\ Found /\ fsx.phase = "idle"
  BY DEF FsInv, FsSubmit
<1>1. fs' = fs /\ outside' = outside /\ fsHost' = fsHost
  BY DEF FsSubmit, Other
<1>2. Behind = {} /\ ~fsx.committed /\ fsx.call.op # "delete" /\ ~fsx.rolled /\ outside.put = "none"
  BY <1>0 DEF Phases, FsEarly, FsOver, Behind, Before
<1>3. Untouched
  BY <1>0, <1>2 DEF Claimed, FsEarly
<1>4. /\ fsx' \in FsCallStates' /\ fsx'.at = 1 /\ fsx'.over = fsx'.call.over /\ ~fsx'.exists
      /\ ~fsx'.rolled /\ ~fsx'.requested /\ ~fsx'.committed /\ fsx'.err # "cancelled"
      /\ fsx'.phase \in {"done", "running", "admitted"}
      /\ (fsx'.phase = "running" => fsx'.call.op = "data_ref")
  <2>1. PICK c \in FsCalls, left \in 1..2 :
          LET route == filesystem_route(c)
              new   == [NoCall EXCEPT !.call = c, !.over = c.over, !.left = left]
          IN  fsx' = IF route = "unsupported" THEN [new EXCEPT !.phase = "done", !.err = "unsupported"]
                     ELSE IF route = "free" THEN [new EXCEPT !.phase = "running"]
                     ELSE IF Admit(c) = NoExecutor
                     THEN [new EXCEPT !.phase = "done", !.err = "unavailable"]
                     ELSE [new EXCEPT !.phase = "admitted", !.by = Admit(c)]
    BY DEF FsSubmit
  <2> DEFINE o == c.over
             a == Admit(c)
             Made == [phase : {"idle", "done", "running", "admitted"}, call : FsCalls,
                      by : {NoExecutor, a}, at : Nat \ {0}, over : BOOLEAN, seen : Ids,
                      exists : BOOLEAN, owned : BOOLEAN, left : 0..2, late : {"ok", "io"},
                      rolled : BOOLEAN, locked : BOOLEAN, requested : BOOLEAN,
                      committed : BOOLEAN, verified : BOOLEAN,
                      err : {"ok", "unsupported", "unavailable"}]
             Fresh(r) == /\ r \in Made /\ r.at = 1 /\ ~r.exists /\ ~r.rolled /\ ~r.requested
                         /\ ~r.committed
             new == [NoCall EXCEPT !.call = c, !.over = o, !.left = left]
  <2>2. o \in BOOLEAN
    BY CallFields
  <2>3. filesystem_route(c) = "free" => c.op = "data_ref"
    BY DEF filesystem_route
  <2>4. \/ fsx' = [new EXCEPT !.phase = "done", !.err = "unsupported"]
        \/ fsx' = [new EXCEPT !.phase = "running"] /\ c.op = "data_ref"
        \/ fsx' = [new EXCEPT !.phase = "done", !.err = "unavailable"]
        \/ fsx' = [new EXCEPT !.phase = "admitted", !.by = a]
    BY <2>1, <2>3
  <2> HIDE DEF o, a
  <2>5. Fresh(NoCall)
    <3>1. Call("inspect", "file", FALSE, FALSE, "path") \in FsCalls
      BY DEF Call, FsCalls, ReadCalls
    <3> DEFINE k == Call("inspect", "file", FALSE, FALSE, "path")
    <3>2. NoCall = [phase |-> "idle", call |-> k,
           by |-> NoExecutor, at |-> 1, over |-> FALSE, seen |-> "none", exists |-> FALSE,
           owned |-> FALSE, left |-> 0, late |-> "ok", rolled |-> FALSE, locked |-> FALSE,
           requested |-> FALSE, committed |-> FALSE, verified |-> TRUE, err |-> "ok"]
      BY DEF NoCall
    <3> HIDE DEF k
    <3>3. k \in FsCalls
      BY <3>1 DEF k
    <3> QED
      BY <3>2, <3>3 DEF Ids
  <2>6. Fresh(new) /\ new.call = c /\ new.over = o
    <3>1. left \in 0..2
      OBVIOUS
    <3> QED
      BY <2>2, <2>5, <3>1
  <2> HIDE DEF new
  <2>7. /\ Fresh(fsx') /\ fsx'.call = c /\ fsx'.over = o
        /\ fsx'.phase \in {"done", "running", "admitted"}
        /\ (fsx'.phase = "running" => c.op = "data_ref")
    <3>1. CASE fsx' = [new EXCEPT !.phase = "done", !.err = "unsupported"]
      BY <2>6, <3>1
    <3>2. CASE fsx' = [new EXCEPT !.phase = "running"] /\ c.op = "data_ref"
      BY <2>6, <3>2
    <3>3. CASE fsx' = [new EXCEPT !.phase = "done", !.err = "unavailable"]
      BY <2>6, <3>3
    <3>4. CASE fsx' = [new EXCEPT !.phase = "admitted", !.by = a]
      BY <2>6, <3>4
    <3> QED
      BY <2>4, <3>1, <3>2, <3>3, <3>4
  <2>8. fsx' \in FsCallStates' /\ fsx'.err # "cancelled"
    BY <2>7 DEF FsCallStates
  <2> QED
    BY <2>7, <2>8 DEF o
<1>5. Behind' = {}
  BY <1>4 DEF Behind, Before
<1>6. ~At("identity")'
  <2>1. fsx'.phase = "running" => Program' = <<"look">>
    BY <1>4 DEF Program, execute_shizuku_filesystem, execute_inner
  <2> QED
    BY <1>4, <2>1 DEF At
<1>7. FsTypeOK'
  BY <1>0, <1>1, <1>4 DEF FsTypeOK
<1>8. Phases' /\ Careful'
  BY <1>1, <1>2, <1>4, <1>5 DEF Phases, Careful, FsEarly, FsOver
<1>9. Whole'
  BY <1>0, <1>1, <1>2, <1>4, <1>5, <1>6 DEF Whole, Present
<1>10. Claimed'
  <2>1. Untouched'
    BY <1>1, <1>3 DEF Untouched
  <2> QED
    BY <1>4, <1>5, <2>1 DEF Claimed
<1>11. Found'
  BY <1>1, <1>2, <1>5 DEF Found, PutBefore
<1> QED
  BY <1>7, <1>8, <1>9, <1>10, <1>11 DEF FsInv

\* Every initial state.
LEMMA FsInitInv ==
  ASSUME FsInit
  PROVE  FsInv
<1> DEFINE Olds == {NoEntry, Entry("file", "old"), Entry("dir", "old"), Entry("link", "old")}
           News == {NoEntry} \cup {Entry(k, "new") : k \in {"file", "dir", "link"}}
<1>1. PICK dst \in Olds, src \in News :
        /\ fs = [s \in Slots |-> CASE s = "dst" -> dst [] s = "src" -> src [] OTHER -> NoEntry]
        /\ fsHost.was = dst.kind
  BY DEF FsInit
<1>2. /\ dst \in Entries /\ dst.id # "new" /\ (dst.kind # "none" => dst.body = Pieces)
      /\ NoEntry \in Entries
  BY FilesystemAssumption DEF NoEntry, Entry, Entries, Kinds, Ids
<1>3. src \in Entries /\ (src.kind # "none" => src.body = Pieces)
  BY FilesystemAssumption DEF NoEntry, Entry, Entries, Kinds, Ids
<1>4. fs \in [Slots -> Entries] /\ fs["dst"] = dst /\ fs["src"] = src
  <2> HIDE DEF Olds, News
  <2> QED
    BY <1>1, <1>2, <1>3 DEF Slots
<1>5. /\ outside \in [count : Nat, put : {"none", "file"}, early : BOOLEAN] /\ outside.put = "none"
  BY DEF FsInit
<1>6. /\ fsx \in FsCallStates /\ fsx.phase = "idle" /\ fsx.at = 1 /\ ~fsx.committed
      /\ ~fsx.rolled /\ ~fsx.exists /\ ~fsx.over /\ ~fsx.requested /\ fsx.err = "ok"
      /\ fsx.call.op = "inspect"
  <2>1. Call("inspect", "file", FALSE, FALSE, "path") \in FsCalls
    BY DEF Call, FsCalls, ReadCalls
  <2> DEFINE k == Call("inspect", "file", FALSE, FALSE, "path")
  <2>2. fsx = [phase |-> "idle", call |-> k,
           by |-> NoExecutor, at |-> 1, over |-> FALSE, seen |-> "none", exists |-> FALSE,
           owned |-> FALSE, left |-> 0, late |-> "ok", rolled |-> FALSE, locked |-> FALSE,
           requested |-> FALSE, committed |-> FALSE, verified |-> TRUE, err |-> "ok"]
    BY DEF NoCall, FsInit
  <2>3. k \in FsCalls /\ k.op = "inspect"
    BY <2>1 DEF Call
  <2> HIDE DEF k
  <2> QED
    BY <2>2, <2>3 DEF FsCallStates, Ids
<1>7. Behind = {}
  BY <1>6 DEF Behind, Before
<1>8. FsTypeOK /\ Phases /\ Careful
  BY <1>4, <1>5, <1>6, <1>7 DEF FsTypeOK, Phases, Careful, FsEarly, FsOver
<1>9. Whole
  BY <1>2, <1>3, <1>4, <1>6, <1>7 DEF Whole, Present, At
<1>10. Claimed
  <2>1. Untouched
    BY <1>1, <1>2, <1>4 DEF Untouched
  <2> QED
    BY <1>6, <1>7, <2>1 DEF Claimed
<1>11. Found
  BY <1>5, <1>7 DEF Found, PutBefore
<1> QED
  BY <1>8, <1>9, <1>10, <1>11 DEF FsInv

\* Every step.
LEMMA FsStepInv ==
  ASSUME FsInv, [FsNext]_fsVars
  PROVE  FsInv'
<1>1. CASE UNCHANGED fsVars
  BY <1>1, StillInv DEF fsVars
<1>2. CASE FsSubmit
  BY <1>2, SubmitInv
<1>3. CASE FsCallStep
  BY <1>3, StartInv, CancelledInv, LooksInv, CheckInv, FillInv, CreateInv, LockInv, RecheckInv,
     RenameInv, IdentityInv, RollbackInv, SyncDirInv, DisplaceInv, UnstageInv, CommitInv, MkdirInv,
     DeleteInv, CleanupInv, DoneInv
  DEF FsCallStep
<1>4. CASE FsCancel
  BY <1>4, CancelInv
<1>5. CASE FsOutside
  BY <1>5, OutsideInv
<1>6. CASE FsFact
  BY <1>6, StillInv DEF FsFact
<1> QED
  BY <1>1, <1>2, <1>3, <1>4, <1>5, <1>6 DEF FsNext

\* The invariant of the filesystem tool, for any number of pieces, faults and replacements.
THEOREM FilesystemInductive == FsSpec => []FsInv
<1>1. FsInit => FsInv
  BY FsInitInv
<1>2. FsInv /\ [FsNext]_fsVars => FsInv'
  BY FsStepInv
<1> QED
  BY <1>1, <1>2, PTL DEF FsSpec

\* The destination is a whole entry in every state of every call: also when the process dies
\* between any two steps of a publication, no reader meets an entry that is being built.
THEOREM DestinationsWhole == FsSpec => []WholeDestination
<1>1. FsInv => WholeDestination
  BY DEF FsInv, Whole, WholeDestination
<1> QED
  BY <1>1, FilesystemInductive, PTL

\* A call that is reported as cancelled has committed nothing, and has changed nothing at its
\* destination unless its native publication failed past its rename: the claim is asked before
\* each publication, takes no cancellation during one, and notes only one that returned.
THEOREM CancelledUntouched == FsSpec => []CancelledUnpublished
<1>1. FsInv => CancelledUnpublished
  BY RenamedBehind DEF FsInv, Claimed, CancelledUnpublished
<1> QED
  BY <1>1, FilesystemInductive, PTL

\* A Shizuku replacement never deletes what another process put at the destination between
\* the check and the exchange.
THEOREM ForeignEntriesKept == FsSpec => []ForeignKept
<1>1. FsInv => ForeignKept
  <2>1. SUFFICES ASSUME FsInv, PutBefore, fsx.seen # "out" PROVE \E s \in Slots : fs[s].id = "out"
    BY DEF ForeignKept, PutBefore
  <2>2. "dst" \in Slots /\ From \in Slots
    BY DEF Slots, From
  <2>3. CASE "rename" \notin Behind
    <3>1. fs["dst"].id = "out"
      BY <2>1, <2>3 DEF FsInv, Found, Entry
    <3> QED
      BY <2>2, <3>1
  <2>4. CASE "rename" \in Behind
    <3>1. fs["dst"].id = "out" \/ fs[From].id = "out"
      BY <2>1, <2>4 DEF FsInv, Found
    <3> QED
      BY <2>2, <3>1
  <2> QED
    BY <2>3, <2>4
<1> QED
  BY <1>1, FilesystemInductive, PTL

\* What a step of the call may do to its destination.
LEMMA OnlyIntoEmpty ==
  ASSUME FsInv, FsNext, fs["dst"] # fs'["dst"], outside' = outside, ~fsx.call.over,
         fsx.call.op # "delete"
  PROVE  fs["dst"].kind = "none"
<1>0. FsTypeOK /\ Phases /\ Careful /\ fs \in [Slots -> Entries] /\ fsx \in FsCallStates
  BY DEF FsInv, FsTypeOK
<1>1. ~FsOutside
  <2>1. SUFFICES ASSUME FsOutside PROVE FALSE
    OBVIOUS
  <2>2. outside'.count = outside.count + 1 /\ outside.count \in Nat
    BY <1>0, <2>1 DEF FsOutside, FsTypeOK
  <2> QED
    BY <2>2
<1>2. CASE FsRename
  <2>1. At("rename") /\ Rules("rename") /\ Renames \in {"moves", "swaps"} /\ fsx.exists \in BOOLEAN
    BY <1>0, <1>2, StepRules DEF FsRename, Begin, Breaks, FsCallStates
  <2>2. ~fsx.exists
    BY <1>0, <2>1 DEF Careful, Rules
  <2> QED
    BY <2>1, <2>2 DEF Renames, Present
<1>3. CASE FsMkdir
  BY <1>3 DEF FsMkdir, Breaks, Present
<1>4. ~FsDelete
  <2>1. SUFFICES ASSUME FsDelete PROVE FALSE
    OBVIOUS
  <2>2. At("delete") /\ Rules("delete")
    BY <1>0, <2>1, StepRules DEF FsDelete, Begin
  <2> QED
    BY <2>2 DEF Rules
<1>5. ~FsRollback
  BY <1>0 DEF FsRollback, Phases
<1>6. ASSUME NEW t \in {"src", "pub", "stage"}, NEW y, fs' = [fs EXCEPT ![t] = y] PROVE FALSE
  BY <1>0, <1>6 DEF Slots
<1>7. From \in {"src", "pub", "stage"}
  BY DEF From
<1>8. ASSUME NEW s, NEW t \in {"src", "pub", "stage"}, Grows(s, t) PROVE FALSE
  BY <1>6, <1>8 DEF Grows, Breaks
<1>9. ~(FsDownload \/ FsPack \/ FsUnpack \/ FsFill \/ FsCopyTree \/ FsCopyLink \/ FsCopyStage)
  BY <1>8 DEF FsDownload, FsPack, FsUnpack, FsFill, FsCopyTree, FsCopyLink, FsCopyStage
<1>10. ~(FsStart \/ FsCancelled \/ FsInspect \/ FsRead \/ FsReadRef \/ FsList \/ FsCheck \/ FsSync
         \/ FsLock \/ FsRecheck \/ FsIdentity \/ FsSyncDir \/ FsCommit \/ FsVerify \/ FsDone)
  BY DEF FsStart, FsCancelled, FsInspect, FsRead, FsReadRef, FsList, Looks, FsCheck, FsSync, FsLock,
         FsRecheck, FsIdentity, FsSyncDir, FsCommit, FsVerify, FsDone, Breaks
<1>11. ~FsCreate
  BY <1>6 DEF FsCreate, Breaks
<1>12. ~FsDisplace
  <2>1. ASSUME fs' = [fs EXCEPT ![From].body = @ - 1] PROVE FALSE
    <3> DEFINE y == [fs[From] EXCEPT !.body = @ - 1]
    <3>1. fs' = [fs EXCEPT ![From] = y]
      BY <2>1
    <3> HIDE DEF y
    <3> QED
      BY <1>6, <1>7, <3>1
  <2>2. FsDisplace => \/ UNCHANGED fs
                      \/ fs' = [fs EXCEPT ![From] = NoEntry]
                      \/ fs' = [fs EXCEPT ![From].body = @ - 1]
    BY DEF FsDisplace
  <2> QED
    BY <1>6, <1>7, <2>1, <2>2
<1>13. ~FsUnstage /\ ~FsCleanup /\ ~FsTidy
  BY <1>6 DEF FsUnstage, FsCleanup, FsTidy, Breaks
<1>14. ~FsSubmit /\ ~FsCancel /\ ~FsFact
  BY DEF FsSubmit, FsCancel, FsFact
<1> QED
  BY <1>1, <1>2, <1>3, <1>4, <1>5, <1>9, <1>10, <1>11, <1>12, <1>13, <1>14 DEF FsNext, FsCallStep

\* A call without overwrite only ever takes an empty place, whatever another process does
\* between its checks and its rename.
THEOREM NothingClobbered == FsSpec => NoClobber
<1> DEFINE A == fs["dst"] # fs'["dst"] /\ outside' = outside
                  /\ ~fsx.call.over /\ fsx.call.op # "delete" => fs["dst"].kind = "none"
<1>1. FsInv /\ [FsNext]_fsVars => [A]_fsVars
  <2>1. SUFFICES ASSUME FsInv, FsNext PROVE A
    OBVIOUS
  <2> QED
    BY <2>1, OnlyIntoEmpty
<1>2. FsSpec => [][A]_fsVars
  BY <1>1, FilesystemInductive, PTL DEF FsSpec
<1> QED
  BY <1>2 DEF NoClobber
=============================================================================
