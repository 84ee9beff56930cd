---------------------------- MODULE MCSessionTree ----------------------------
EXTENDS SessionTree

MCDomains == {"server", "local"}
MCServerOnly == {"server"}
MCLayouts == {<<"split">>, <<"tab">>}
MCNoLayouts == {}

(* One Space with two tabs: a shell and a client-local companion of its     *)
(* pane beside it in the first, a client-local pane in the second.          *)
MCCheckpoint ==
    [rev |-> 3, name |-> 0, spaces |-> 1 :> {3, 6},
     tabs |-> 3 :> [root |-> Node(2),
                    nodes |-> Node(2) :> Branch(Node(8), Node(9))
                              @@ Node(8) :> Leaf(1) @@ Node(9) :> Leaf(7),
                    panes |-> 1 :> Pane(1, 0) @@ 7 :> Pane(0, 1)]
              @@ 6 :> NewTab(4, Pane(0, 0), 5)]

MCNoFile == {NoFile}
MCFirstFiles == {NoFile, MCCheckpoint}
=============================================================================
