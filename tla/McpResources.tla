---------------------------- MODULE McpResources ----------------------------
(***************************************************************************)
(* resources/list: a client walks the pages of the artifact manifest while *)
(* artifacts are published, expire and are evicted between its requests.   *)
(* Nothing of a walk is kept by the server: the cursor names the last      *)
(* artifact of the page before.                                            *)
(*                                                                         *)
(* An artifact is a number, its rank by creation time and reference.  Any  *)
(* may be published next: a wall clock that is set back dates an artifact  *)
(* before others that are already listed.                                  *)
(***************************************************************************)
EXTENDS Naturals, FiniteSets, FiniteSetsExt, Sequences, SequencesExt

CONSTANTS Refs,      \* how many artifacts are ever published
          PageSize,  \* MCP_RESOURCE_PAGE_SIZE
          MaxWalks   \* bound: walks the client starts

ASSUME McpResourcesAssumption ==
  /\ {Refs, MaxWalks} \subseteq Nat
  /\ PageSize \in Nat \ {0}

VARIABLES rsIssued,  \* the references given so far
          rsLive,  \* the listable artifacts of the manifest that have not expired
          rsWalk   \* the client's walk

rsVars == <<rsIssued, rsLive, rsWalk>>

NoCursor == 0
NoWalk == [at |-> "idle", cursor |-> NoCursor, seen |-> <<>>, stays |-> {}, walks |-> 0]

(***************************************************************************)
(* The manifest.                                                           *)
(***************************************************************************)
\* No reference is ever given twice.
PublishRef(r) ==
  /\ r \notin rsIssued
  /\ rsIssued' = rsIssued \cup {r}
  /\ rsLive' = rsLive \cup {r}
  /\ UNCHANGED rsWalk

\* It expires, or capacity evicts it.
DropRef(r) ==
  /\ r \in rsLive
  /\ rsLive' = rsLive \ {r}
  /\ rsWalk' = [rsWalk EXCEPT !.stays = @ \ {r}]
  /\ UNCHANGED rsIssued

(***************************************************************************)
(* answer_mcp_query.                                                       *)
(***************************************************************************)
\* The live artifacts, newest first.
Listing == CHOOSE s \in [1..Cardinality(rsLive) -> rsLive] :
              \A i, j \in DOMAIN s : i < j => s[i] > s[j]

mcp_resource_cursor_ref(cursor) == cursor

PageStart_Repeats(cursor) ==
  IF cursor = NoCursor THEN 1
  ELSE SelectInSeq(Listing, LAMBDA r : r = mcp_resource_cursor_ref(cursor))

\* Where a page begins: nowhere once the artifact of the cursor is gone.
PageStart(cursor) ==
  IF cursor = NoCursor THEN 1
  ELSE LET at == SelectInSeq(Listing, LAMBDA r : r = mcp_resource_cursor_ref(cursor))
       IN  IF at = 0 THEN 0 ELSE at + 1

PageFrom(start) == SubSeq(Listing, start, Min({start + PageSize - 1, Len(Listing)}))

\* The cursor of the page after it, if the listing goes on.
NextCursor(start) ==
  LET page == PageFrom(start)
  IN  IF start - 1 + Len(page) < Len(Listing) /\ page # <<>> THEN Last(page) ELSE NoCursor

(***************************************************************************)
(* The client: from the first page along every cursor, or from the start   *)
(* again when a cursor is refused.                                         *)
(***************************************************************************)
list_resources ==
  LET start == PageStart(rsWalk.cursor)
  IN  /\ rsWalk.at = "walking"
      /\ start # 0
      /\ rsWalk' = [rsWalk EXCEPT !.seen = @ \o PageFrom(start),
                                  !.cursor = NextCursor(start),
                                  !.at = IF NextCursor(start) = NoCursor THEN "done" ELSE @]
      /\ UNCHANGED <<rsIssued, rsLive>>

InvalidCursor ==
  /\ rsWalk.at = "walking"
  /\ PageStart(rsWalk.cursor) = 0
  /\ rsWalk' = [NoWalk EXCEPT !.walks = rsWalk.walks]
  /\ UNCHANGED <<rsIssued, rsLive>>

StartWalk ==
  /\ rsWalk.at # "walking"
  /\ rsWalk.walks < MaxWalks
  /\ rsWalk' = [at |-> "walking", cursor |-> NoCursor, seen |-> <<>>, stays |-> rsLive,
                walks |-> rsWalk.walks + 1]
  /\ UNCHANGED <<rsIssued, rsLive>>

RsInit == rsIssued = {} /\ rsLive = {} /\ rsWalk = NoWalk
RsNext ==
  \/ \E r \in 1..Refs : PublishRef(r) \/ DropRef(r)
  \/ list_resources \/ InvalidCursor \/ StartWalk
RsSpec == RsInit /\ [][RsNext]_rsVars

\* A walk that reached its end listed nothing twice, and every artifact that
\* was there when it began and still is: what is published, expires or is
\* evicted between two pages moves no other artifact past the cursor.
WalkComplete ==
  /\ IsInjective(rsWalk.seen)
  /\ rsWalk.at = "done" => rsWalk.stays \subseteq ToSet(rsWalk.seen)
=============================================================================
