---------------------------- MODULE MCOfflineShell ----------------------------
(* Two builds with a main chunk each.  They share the Worker, which alone   *)
(* names the asset.  vite.config.ts reads the bundle from the files on      *)
(* disk, which do not say what is a Worker.                                 *)
EXTENDS OfflineShellProperties, TLC

Build(main) ==
    [html |-> {main}, workers |-> {}, assets |-> {"data"},
     code |-> (main :> {"worker"}) @@ ("worker" :> {"data"}) @@ ("unused" :> {main})]

MCBundle == <<Build("main1"), Build("main2")>>

Symmetry == Permutations(Pages)
=============================================================================
