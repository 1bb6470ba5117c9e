------------------------------- MODULE Resolver -------------------------------
(***************************************************************************)
(* The executor resolver every tool's admission goes through               *)
(* (domain/admission.rs): a request and a host give the ordered list of    *)
(* providers that hold the authority to serve it, and the first one whose  *)
(* capability is available is admitted with its current generation.  There *)
(* is no other fallback.                                                   *)
(***************************************************************************)
EXTENDS Naturals, Sequences

Hosts     == {"apk", "magisk"}
Providers == {"app_native", "app_framework", "shizuku", "magisk_native",
              "magisk_framework", "accessibility", "media_projection",
              "notification_listener"}

\* The facts the resolver reads: one per provider, except that the root host's
\* framework helper has one per operation.
Facts == (Providers \ {"magisk_framework"})
            \cup {"magisk_launch", "magisk_clipboard", "magisk_notifications"}

NoExecutor == [provider |-> "none", generation |-> 0]

\* A fact and the provider it stands for.
Own(p)     == <<p, p>>
Helper(f)  == <<f, "magisk_framework">>
OnlyIf(ok, p) == IF ok THEN <<Own(p)>> ELSE <<>>

\* resolve_executor's candidates on the APK host, in order.
ApkCandidates(r) ==
  CASE r.tool = "command" -> [app |-> <<Own("app_native")>>, shell |-> <<Own("shizuku")>>,
                              root |-> <<>>][r.route]
    [] r.tool = "filesystem" /\ r.target = "content" ->
         OnlyIf(r.route = "inspect_or_read", "app_framework")
    [] r.tool = "filesystem" /\ r.target = "path" ->
         OnlyIf(r.app = "positive", "app_native") \o OnlyIf(r.shizuku = "positive", "shizuku")
    [] r.tool = "network" -> [inspect_or_diagnose |-> <<Own("app_native")>>,
                              route_supplement |-> <<Own("shizuku")>>,
                              capture |-> <<>>, inject |-> <<>>][r.route]
    [] r.tool = "visual" ->
         [display |-> <<Own("app_framework")>>, transform |-> <<Own("app_framework")>>,
          hierarchy |-> <<Own("accessibility"), Own("shizuku")>>,
          image |-> <<Own("shizuku"), Own("accessibility"), Own("media_projection")>>,
          coordinate |-> <<Own("accessibility"), Own("shizuku")>>,
          text |-> <<Own("accessibility")>>, key |-> <<Own("shizuku")>>,
          node |-> <<Own("accessibility")>>][r.route]
    [] r.tool = "android" ->
         [inspect_exact |-> <<Own("app_framework")>>, inspect_absent |-> <<Own("shizuku")>>,
          inspect_unknown |-> <<>>, list |-> <<Own("shizuku")>>,
          force_stop |-> <<Own("shizuku")>>, launch |-> <<Own("app_framework")>>,
          clipboard |-> <<Own("app_framework")>>,
          notification |-> <<Own("notification_listener")>>][r.route]

\* The root host's candidates: its own native surface for everything but the
\* operations of the framework helper, and nothing for a node target.
MagiskCandidates(r) ==
  CASE r.tool = "command" -> OnlyIf(r.route = "root", "magisk_native")
    [] r.tool = "filesystem" ->
         OnlyIf(r.target = "path" \/ r.route = "inspect_or_read", "magisk_native")
    [] r.tool = "network" -> <<Own("magisk_native")>>
    [] r.tool = "visual" -> OnlyIf(r.route # "node", "magisk_native")
    [] r.tool = "android" ->
         CASE r.route = "launch" -> <<Helper("magisk_launch")>>
           [] r.route = "clipboard" -> <<Helper("magisk_clipboard")>>
           [] r.route = "notification" -> <<Helper("magisk_notifications")>>
           [] OTHER -> <<Own("magisk_native")>>

Candidates(host, r) == IF host = "apk" THEN ApkCandidates(r) ELSE MagiskCandidates(r)

\* choose: the first candidate whose fact is available, at its current generation.
choose(cands, up, gen) ==
  LET live == SelectSeq(cands, LAMBDA c : c[1] \in up)
  IN  IF live = <<>> THEN NoExecutor
      ELSE [provider |-> Head(live)[2], generation |-> gen[Head(live)[2]]]

resolve_executor(host, up, gen, r) == choose(Candidates(host, r), up, gen)

=============================================================================
