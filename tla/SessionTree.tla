----------------------------- MODULE SessionTree -----------------------------
(***************************************************************************)
(* One Session on the server: the Spaces, tabs and split trees of the      *)
(* TopologyService, the terminals the kernel keeps for its panes, the loop *)
(* that closes the panes whose shells have ended, and the checkpoints of   *)
(* the topology that outlive the server.                                   *)
(*                                                                         *)
(* The state thread executes commands and collects checkpoints; shells end *)
(* and the checkpoint writer works beside it; the server may stop at any   *)
(* moment and a new one restores the file.  Names, ratios, directions and  *)
(* the order of tabs are left out: a command that changes only them bumps  *)
(* the revision.  Commands carry the current revision (SessionTopology     *)
(* models the conflicts).                                                  *)
(***************************************************************************)
EXTENDS Naturals, Sequences, FiniteSets, SequencesExt, FiniteSetsExt,
        Functions, TLC

CONSTANTS
    MaxSpaces,          \* kSessionStateMaxSpaces
    MaxTabs,            \* kSessionStateMaxTabsPerSpace
    MaxPanes,           \* kSessionStateMaxPanesPerTab
    MaxDepth,           \* kSessionStateMaxTreeDepth
    MaxTerminals,       \* max_terminals of the server's options
    Domains,            \* pane domains commands ask for
    Layouts,            \* layouts to apply: what follows the first pane
    FirstFiles,         \* checkpoints the first server may find
    MaxCommands,        \* bound: commands, renames and launches of agents
    MaxExits,           \* bound: shells that end
    MaxRestarts,        \* bound: servers after the first
    MaxFaults           \* bound: failures of the checkpoint writer

(* apply_layout() refuses a layout with too many tabs, and one with a tab   *)
(* of too many panes or too deep, before it begins.                         *)
TabsIn(plan) == {i \in DOMAIN plan : plan[i] = "tab"}

ValidLayout(plan) ==
    /\ plan \in Seq({"tab", "split"})
    /\ Cardinality(TabsIn(plan)) < MaxTabs
    /\ \A i, j \in DOMAIN plan :
          i <= j /\ (\A k \in i..j : plan[k] = "split")
              => j - i + 1 < MaxPanes /\ j - i + 1 <= MaxDepth

ASSUME SessionTreeAssumption ==
    /\ MaxSpaces \in Nat \ {0} /\ MaxTabs \in Nat \ {0}
    /\ MaxPanes \in Nat \ {0} /\ MaxDepth \in Nat
    /\ MaxTerminals \in Nat \ {0}
    /\ Domains \subseteq {"server", "local"}
    /\ \A plan \in Layouts : ValidLayout(plan)
    /\ MaxCommands \in Nat /\ MaxExits \in Nat /\ MaxRestarts \in Nat
    /\ MaxFaults \in Nat

VARIABLES
    session,            \* snapshot_, next_serial_, terminals
    name,               \* session_name, as the number of renames
    file,               \* the published checkpoint
    task,               \* checkpoint_task
    saved,              \* checkpoint_file_present, last_checkpoint_revision
    commands, exits, restarts, faults

vars == <<session, name, file, task, saved, commands, exits, restarts,
          faults>>
saving == <<name, file, task, saved>>

-----------------------------------------------------------------------------
(* Split trees: nodes by their identity, which is a serial with the prefix  *)
(* "node", or "restored" for the branches of a restored tree.               *)

Node(n) == <<"node", n>>
NoNode == Node(0)

Leaf(pane) ==
    [leaf |-> TRUE, pane |-> pane, first |-> NoNode, second |-> NoNode]
Branch(first, second) ==
    [leaf |-> FALSE, pane |-> 0, first |-> first, second |-> second]

Leaves(tab) == {n \in DOMAIN tab.nodes : tab.nodes[n].leaf}

(* find_leaf_for_pane(), find_parent()                                      *)
LeafOf(tab, pane) == CHOOSE n \in Leaves(tab) : tab.nodes[n].pane = pane

Children(node) == IF node.leaf THEN {} ELSE {node.first, node.second}

ParentOf(tab, n) ==
    CHOOSE m \in DOMAIN tab.nodes : n \in Children(tab.nodes[m])

SiblingOf(tab, n) ==
    CHOOSE m \in Children(tab.nodes[ParentOf(tab, n)]) : m # n

Depth(tab, leaf) ==
    LET depth[n \in DOMAIN tab.nodes] ==
            IF n = tab.root THEN 0 ELSE depth[ParentOf(tab, n)] + 1
    IN  depth[leaf]

(* leaf_can_split()                                                         *)
CanSplitAnywhere(tab, pane) == TRUE

CanSplit(tab, pane) == Depth(tab, LeafOf(tab, pane)) < MaxDepth

(* detach_leaf(): the sibling takes the place, and the identity, of the     *)
(* parent.                                                                  *)
Detach(tab, pane) ==
    LET leaf == LeafOf(tab, pane)
        sibling == SiblingOf(tab, leaf)
        parent == ParentOf(tab, leaf)
        nodes == [tab.nodes EXCEPT ![parent] = tab.nodes[sibling]]
    IN  [tab EXCEPT !.nodes = Restrict(nodes, DOMAIN nodes \ {leaf, sibling})]

(* A map with one entry more.                                               *)
With(f, key, value) ==
    [x \in DOMAIN f \cup {key} |-> IF x = key THEN value ELSE f[x]]

(* The leaf of a pane becomes a branch over that pane and another one.      *)
Split(tab, pane, other, serial) ==
    LET leaf == LeafOf(tab, pane)
        first == Node(serial)
        second == Node(serial + 1)
    IN  [tab EXCEPT !.nodes =
            With(With([@ EXCEPT ![leaf] = Branch(first, second)],
                      first, Leaf(pane)), second, Leaf(other))]

(* Two leaves change their panes.                                           *)
Swap(tab, pane, other) ==
    [tab EXCEPT !.nodes[LeafOf(tab, pane)].pane = other,
                !.nodes[LeafOf(tab, other)].pane = pane]

WithPane(tab, pane, value) == [tab EXCEPT !.panes = With(@, pane, value)]
WithoutPane(tab, pane) ==
    [tab EXCEPT !.panes = Restrict(@, DOMAIN @ \ {pane})]

Pane(terminal, owner) == [terminal |-> terminal, owner |-> owner]

NewTab(pane, value, node) ==
    [root |-> Node(node), nodes |-> [n \in {Node(node)} |-> Leaf(pane)],
     panes |-> [p \in {pane} |-> value]]

(* The nodes below one, branches before what they divide.                   *)
Preorder(tab) ==
    LET order[n \in DOMAIN tab.nodes] ==
            IF tab.nodes[n].leaf THEN <<n>>
            ELSE <<n>> \o order[tab.nodes[n].first]
                       \o order[tab.nodes[n].second]
    IN  order[tab.root]

(* What a tab shows, whatever its nodes are called.                         *)
Shape(tab) ==
    [i \in DOMAIN Preorder(tab) |-> tab.nodes[Preorder(tab)[i]].pane]

-----------------------------------------------------------------------------
(* The Session.                                                             *)

NewTerminal == [state |-> "running", generation |-> 1, tried |-> <<>>]

TerminalsOf(tabs) ==
    (UNION {{tabs[t].panes[p].terminal : p \in DOMAIN tabs[t].panes} :
                t \in DOMAIN tabs}) \ {0}

(* The constructor, with the server's first shell.                          *)
FreshSession ==
    [rev |-> 1, spaces |-> [space \in {1} |-> {3}],
     tabs |-> [tab \in {3} |-> NewTab(1, Pane(1, 0), 2)], serial |-> 4,
     terminals |-> [t \in {1} |-> NewTerminal], nextTerminal |-> 2]

SpaceOf(s, tab) == CHOOSE sp \in DOMAIN s.spaces : tab \in s.spaces[sp]

(* create_server_terminal(): room for one more; the identity is used up     *)
(* either way.                                                              *)
Room(s) == Cardinality(DOMAIN s.terminals) < MaxTerminals

WithTerminal(s) ==
    [s EXCEPT !.terminals = With(@, s.nextTerminal, NewTerminal),
              !.nextTerminal = @ + 1]

UsedUp(s, serials, terminals) ==
    [s EXCEPT !.serial = @ + serials, !.nextTerminal = @ + terminals]

(* destroy_server_terminal()                                                *)
Destroy(s, terminals) ==
    [s EXCEPT !.terminals = Restrict(@, DOMAIN @ \ terminals)]

RemoveTab(s, tab) ==
    [s EXCEPT !.spaces[SpaceOf(s, tab)] = @ \ {tab},
              !.tabs = Restrict(@, DOMAIN @ \ {tab})]

RemoveSpace(s, space) ==
    [s EXCEPT !.spaces = Restrict(@, DOMAIN @ \ {space}),
              !.tabs = Restrict(@, DOMAIN @ \ s.spaces[space])]

(* A tab for one new pane: the pane, the node and the tab take a serial     *)
(* each.                                                                    *)
AddTab(s, space, value) ==
    LET tab == s.serial + 2
    IN  [s EXCEPT !.serial = @ + 3, !.spaces[space] = @ \cup {tab},
                  !.tabs = With(@, tab, NewTab(s.serial, value, s.serial + 1))]

AddSpace(s, value) ==
    AddTab([s EXCEPT !.serial = @ + 1, !.spaces = With(@, s.serial, {})],
           s.serial, value)

AddPane(s, tab, pane, value) ==
    [s EXCEPT !.serial = @ + 3,
              !.tabs[tab] = WithPane(Split(@, pane, s.serial, s.serial + 1),
                                     s.serial, value)]

(* A pane of the server's domain comes with a terminal of its own.          *)
Supplied(s, domain) == IF domain = "server" THEN WithTerminal(s) ELSE s

NewPane(s, domain) == Pane(IF domain = "server" THEN s.nextTerminal ELSE 0, 0)

-----------------------------------------------------------------------------
(* TopologyService::command(): a command that is applied bumps the          *)
(* revision; one that is not may have used up identities.                   *)

Bump(s) == [s EXCEPT !.rev = @ + 1]

Command == commands < MaxCommands /\ commands' = commands + 1
           /\ UNCHANGED <<saving, exits, restarts, faults>>

CreateSpace(domain) ==
    /\ Cardinality(DOMAIN session.spaces) < MaxSpaces
    /\ session' = IF domain = "server" /\ ~Room(session)
                  THEN UsedUp(session, 4, 1)
                  ELSE Bump(AddSpace(Supplied(session, domain),
                                     NewPane(session, domain)))
    /\ Command

CreateTab(space, domain) ==
    /\ Cardinality(session.spaces[space]) < MaxTabs
    /\ session' = IF domain = "server" /\ ~Room(session)
                  THEN UsedUp(session, 3, 1)
                  ELSE Bump(AddTab(Supplied(session, domain), space,
                                   NewPane(session, domain)))
    /\ Command

(* An owner makes the new pane its companion, if it is client-local.        *)
SplitPane(tab, pane, domain, owner) ==
    LET t == session.tabs[tab]
    IN  /\ Cardinality(DOMAIN t.panes) < MaxPanes /\ CanSplit(t, pane)
        /\ session' =
             IF domain = "local"
             THEN Bump(AddPane(session, tab, pane, Pane(0, owner)))
             ELSE IF Room(session)
             THEN Bump(AddPane(WithTerminal(session), tab, pane,
                               Pane(session.nextTerminal, 0)))
             ELSE UsedUp(session, 1, 1)
        /\ Command

(* ClosePane, CloseTab and CloseSpace destroy the terminals they remove.    *)
ClosedPane(s, tab, pane) ==
    Destroy([s EXCEPT !.tabs[tab] = WithoutPane(Detach(@, pane), pane)],
            {s.tabs[tab].panes[pane].terminal})

ClosedTab(s, tab) ==
    Destroy(RemoveTab(s, tab), TerminalsOf(Restrict(s.tabs, {tab})))

ClosedSpace(s, space) ==
    Destroy(RemoveSpace(s, space),
            TerminalsOf(Restrict(s.tabs, s.spaces[space])))

ClosePane(tab, pane) ==
    /\ Cardinality(DOMAIN session.tabs[tab].panes) > 1
    /\ session' = Bump(ClosedPane(session, tab, pane))
    /\ Command

CloseTab(tab) ==
    /\ Cardinality(session.spaces[SpaceOf(session, tab)]) > 1
    /\ session' = Bump(ClosedTab(session, tab))
    /\ Command

CloseSpace(space) ==
    /\ Cardinality(DOMAIN session.spaces) > 1
    /\ session' = Bump(ClosedSpace(session, space))
    /\ Command

(* MovePane: a companion, its owner and the pane a companion shares its     *)
(* place with stay.                                                         *)
Companions(tab, pane, other, target) ==
    \/ tab.panes[pane].owner # 0
    \/ other.panes[target].owner # 0
    \/ \E p \in DOMAIN tab.panes : tab.panes[p].owner = pane

MoveInTab(tab, pane, target) ==
    LET t == session.tabs[tab]
    IN  /\ pane # target /\ ~Companions(t, pane, t, target)
        /\ CanSplit(Detach(t, pane), target)
        /\ session' = Bump([session EXCEPT
               !.serial = @ + 2,
               !.tabs[tab] = Split(Detach(@, pane), target, pane,
                                   session.serial)])
        /\ Command

(* The tab a pane leaves goes with its last pane.                           *)
EmptiesTab(tab, pane) == DOMAIN tab.panes = {pane}

LeavesTab(s, tab, pane) ==
    IF EmptiesTab(s.tabs[tab], pane) THEN RemoveTab(s, tab)
    ELSE [s EXCEPT !.tabs[tab] = WithoutPane(Detach(@, pane), pane)]

MoveAcross(tab, pane, other, target) ==
    LET from == session.tabs[tab]
        to == session.tabs[other]
    IN  /\ tab # other /\ from.panes[pane].terminal # 0
        /\ Cardinality(DOMAIN to.panes) < MaxPanes
        /\ \/ Cardinality(DOMAIN from.panes) > 1
           \/ Cardinality(session.spaces[SpaceOf(session, tab)]) > 1
        /\ ~Companions(from, pane, to, target)
        /\ CanSplit(to, target)
        /\ session' = Bump([LeavesTab(session, tab, pane) EXCEPT
               !.serial = @ + 2,
               !.tabs[other] = WithPane(
                   Split(to, target, pane, session.serial),
                   pane, from.panes[pane])])
        /\ Command

SwapPane(tab, pane, target) ==
    /\ pane < target
    /\ session' = Bump([session EXCEPT
                           !.tabs[tab] = Swap(@, pane, target)])
    /\ Command

(* restart_runtime() of the pane's terminal.                                *)
RestartPane(tab, pane) ==
    LET t == session.tabs[tab].panes[pane].terminal
    IN  /\ t # 0
        /\ session' = Bump([session EXCEPT
               !.terminals[t].state = "running",
               !.terminals[t].generation = @ + 1])
        /\ Command

(* RenameSpace, RenameTab, RenamePane, MoveTab, UpdateClientPane,           *)
(* SetSplitRatio, EqualizeSplits, a report of an agent's session, and       *)
(* CreateTab when the application has its tab already.                      *)
Touch == session' = Bump(session) /\ Command

(* launch_agent(): in place of a pane, beside it, or in a tab of its own.   *)
(* The agent may fail to start.                                             *)
ReplaceByAgent(tab, pane) ==
    LET old == session.tabs[tab].panes[pane].terminal
    IN  /\ old # 0
        /\ session' \in
             {UsedUp(session, 0, 1)} \cup
             (IF Room(session)
              THEN {Bump(Destroy([WithTerminal(session) EXCEPT
                       !.tabs[tab].panes[pane].terminal =
                           session.nextTerminal], {old}))}
              ELSE {})
        /\ Command

AgentBeside(tab, pane) ==
    /\ Cardinality(DOMAIN session.tabs[tab].panes) < MaxPanes
    /\ CanSplit(session.tabs[tab], pane)
    /\ session' \in
         {UsedUp(session, 1, 1)} \cup
         (IF Room(session)
          THEN {Bump(AddPane(WithTerminal(session), tab, pane,
                             Pane(session.nextTerminal, 0)))}
          ELSE {})
    /\ Command

PersonalAgent(space) ==
    /\ Cardinality(session.spaces[space]) < MaxTabs
    /\ session' \in
         {UsedUp(session, 3, 1)} \cup
         (IF Room(session)
          THEN {Bump(AddTab(WithTerminal(session), space,
                            Pane(session.nextTerminal, 0)))}
          ELSE {})
    /\ Command

(* apply_layout(): a Space with its first pane, then a tab or a split of    *)
(* the newest pane at a time; the first step that fails undoes them all.    *)
LayoutStep(space, sofar, step) ==
    IF ~sofar.ok THEN sofar
    ELSE IF ~Room(sofar.s)
    THEN [ok |-> FALSE,
          s |-> UsedUp(sofar.s, IF step = "tab" THEN 3 ELSE 1, 1)]
    ELSE LET s == WithTerminal(sofar.s)
             value == Pane(sofar.s.nextTerminal, 0)
             tab == Max(s.spaces[space])
         IN  [ok |-> TRUE,
              s |-> IF step = "tab" THEN AddTab(s, space, value)
                    ELSE AddPane(s, tab, Max(DOMAIN s.tabs[tab].panes),
                                 value)]

KeepsTerminals(before, s) ==
    [before EXCEPT !.serial = s.serial, !.nextTerminal = s.nextTerminal,
                   !.terminals = s.terminals]

Rollback(before, s) ==
    [before EXCEPT !.serial = s.serial, !.nextTerminal = s.nextTerminal,
                   !.terminals = Restrict(s.terminals,
                       DOMAIN s.terminals
                           \ (TerminalsOf(s.tabs) \ TerminalsOf(before.tabs)))]

ApplyLayout(plan) ==
    /\ Cardinality(DOMAIN session.spaces) < MaxSpaces
    /\ IF ~Room(session) THEN session' = UsedUp(session, 4, 1)
       ELSE LET space == session.serial
                started == AddSpace(Supplied(session, "server"),
                                    NewPane(session, "server"))
                after[i \in 0..Len(plan)] ==
                    IF i = 0 THEN [ok |-> TRUE, s |-> started]
                    ELSE LayoutStep(space, after[i - 1], plan[i])
                done == after[Len(plan)]
            IN  session' = IF done.ok THEN Bump(done.s)
                           ELSE Rollback(session, done.s)
    /\ Command

-----------------------------------------------------------------------------
(* Shells.                                                                  *)

(* A shell that was not started yet is not told apart from one that runs.   *)
Ends(t, state) ==
    /\ session.terminals[t].state = "running" /\ exits < MaxExits
    /\ session' = [session EXCEPT !.terminals[t].state = state]
    /\ exits' = exits + 1
    /\ UNCHANGED <<saving, commands, restarts, faults>>

(* close_exited_terminal(): the pane, or the tab or the Space it is all of, *)
(* unless it is all of the Session.                                         *)
TabWith(s, t) == CHOOSE tab \in DOMAIN s.tabs :
                    \E p \in DOMAIN s.tabs[tab].panes :
                        s.tabs[tab].panes[p].terminal = t

PaneWith(tab, t) == CHOOSE p \in DOMAIN tab.panes : tab.panes[p].terminal = t

FewPanes(tab) == Cardinality(DOMAIN tab.panes) <= 2

LonePane(tab) == Cardinality(DOMAIN tab.panes) <= 1

CloseExited(s, t) ==
    LET tab == TabWith(s, t)
        space == SpaceOf(s, tab)
    IN  IF ~LonePane(s.tabs[tab])
        THEN {Bump(ClosedPane(s, tab, PaneWith(s.tabs[tab], t)))}
        ELSE IF Cardinality(s.spaces[space]) > 1
        THEN {Bump(ClosedTab(s, tab))}
        ELSE IF Cardinality(DOMAIN s.spaces) > 1
        THEN {Bump(ClosedSpace(s, space))}
        ELSE {}

(* What was tried and failed is not tried again before something changes.   *)
TriedOnce(s, t) == s.terminals[t].tried # <<>>

Tried(s, t) == s.terminals[t].tried = <<s.terminals[t].generation, s.rev>>

CleanExits(s) ==
    {t \in DOMAIN s.terminals :
        s.terminals[t].state = "clean" /\ ~Tried(s, t)}

(* pump() forgets the attempt of a terminal that runs again.                *)
Pumped(s) ==
    [s EXCEPT !.terminals = [t \in DOMAIN @ |->
        IF @[t].state = "running" THEN [@[t] EXCEPT !.tried = <<>>]
        ELSE @[t]]]

CloseOrRemember(rev, s, t) ==
    IF CloseExited(s, t) # {} THEN CHOOSE c \in CloseExited(s, t) : TRUE
    ELSE [s EXCEPT !.terminals[t].tried =
                       <<s.terminals[t].generation, rev>>]

(* One round of the loop: the clean exits it found, in the order of a hash  *)
(* table, the revision as it was before the first of them.                  *)
Pump ==
    /\ CleanExits(session) # {}
    /\ \E order \in SetToSeqs(CleanExits(session)) :
          LET after[i \in 0..Len(order)] ==
                  IF i = 0 THEN Pumped(session)
                  ELSE CloseOrRemember(session.rev, after[i - 1], order[i])
          IN  session' = after[Len(order)]
    /\ UNCHANGED <<saving, commands, exits, restarts, faults>>

-----------------------------------------------------------------------------
(* Checkpoints.                                                             *)

NoFile == [rev |-> 0, name |-> 0, spaces |-> <<>>, tabs |-> <<>>]
NoTask == [state |-> "none", content |-> NoFile]

Content(s, n) ==
    [rev |-> s.rev, name |-> n, spaces |-> s.spaces, tabs |-> s.tabs]

(* capture_session_topology() names a leaf by the number its node ends in,  *)
(* and validate_session_snapshot() wants those to differ within a tab.      *)
Capturable(s) ==
    \A t \in DOMAIN s.tabs :
        LET tab == s.tabs[t]
        IN  /\ IsInjective([n \in Leaves(tab) |-> n[2]])
            /\ \A n \in Leaves(tab) : Depth(tab, n) <= MaxDepth

(* checkpoint_session()                                                     *)
StartsTask(n) ==
    task' = IF Capturable(session)
            THEN [state |-> "writing", content |-> Content(session, n)]
            ELSE NoTask

(* The periodic checkpoint writes what is not in the file yet.              *)
Unsaved == ~saved.present \/ session.rev # saved.rev

Tick ==
    /\ task = NoTask /\ Unsaved /\ Capturable(session)
    /\ StartsTask(name)
    /\ UNCHANGED <<session, name, file, saved, commands, exits, restarts,
                   faults>>

(* session.rename schedules one at once.                                    *)
Rename ==
    /\ task = NoTask /\ commands < MaxCommands
    /\ name' = name + 1 /\ commands' = commands + 1
    /\ StartsTask(name')
    /\ UNCHANGED <<session, file, saved, exits, restarts, faults>>

WriterEnds ==
    /\ task.state = "writing"
    /\ \/ task' = [task EXCEPT !.state = "written"] /\ UNCHANGED faults
       \/ /\ faults < MaxFaults /\ faults' = faults + 1
          /\ task' = [task EXCEPT !.state = "failed"]
    /\ UNCHANGED <<session, name, file, saved, commands, exits, restarts>>

(* collect_checkpoint_results(): the staged file takes the place of the     *)
(* last one, at the revision it was captured with.                          *)
SavedNow(content) == [present |-> TRUE, rev |-> session.rev]

SavedRevision(content) == [present |-> TRUE, rev |-> content.rev]

FailureKept == task

FailureDropped == NoTask

Collect ==
    \/ /\ task.state = "written"
       /\ file' = task.content
       /\ saved' = SavedRevision(task.content)
       /\ task' = NoTask
       /\ UNCHANGED <<session, name, commands, exits, restarts, faults>>
    \/ /\ task.state = "failed"
       /\ task' = FailureDropped
       /\ UNCHANGED <<session, name, file, saved, commands, exits, restarts,
                      faults>>

(* restore_tab(): a leaf keeps its number, a branch is numbered anew, by    *)
(* the branches so far.                                                     *)
BranchesUpTo(tab, n) ==
    LET order == Preorder(tab)
    IN  {i \in 1..(CHOOSE j \in DOMAIN order : order[j] = n) :
            ~tab.nodes[order[i]].leaf}

RestoredNode(tab, n) ==
    IF tab.nodes[n].leaf THEN Node(n[2])
    ELSE <<"restored", Cardinality(BranchesUpTo(tab, n))>>

Renamed(tab, new) ==
    LET node(n) == IF tab.nodes[n].leaf THEN tab.nodes[n]
                   ELSE Branch(new[tab.nodes[n].first],
                               new[tab.nodes[n].second])
    IN  [tab EXCEPT
            !.root = new[@],
            !.nodes = [m \in Range(new) |->
                          node(CHOOSE n \in DOMAIN new : new[n] = m)]]

RestoredTab(tab) ==
    Renamed(tab, [n \in DOMAIN tab.nodes |-> RestoredNode(tab, n)])

(* next_serial_for(): past every number an identity ends in.                *)
TabSerials(t, tab) ==
    {t} \cup DOMAIN tab.panes \cup {n[2] : n \in DOMAIN tab.nodes}
    \cup {tab.panes[p].terminal : p \in DOMAIN tab.panes}

NextSerialForTabs(spaces, tabs) ==
    Max(DOMAIN spaces \cup DOMAIN tabs) + 1

NextSerialFor(spaces, tabs) ==
    Max(DOMAIN spaces
        \cup UNION {TabSerials(t, tabs[t]) : t \in DOMAIN tabs}) + 1

(* initialize_session() from a checkpoint: every terminal anew.             *)
Restored(content) ==
    LET tabs == [t \in DOMAIN content.tabs |-> RestoredTab(content.tabs[t])]
    IN  [rev |-> 1, spaces |-> content.spaces, tabs |-> tabs,
         serial |-> NextSerialFor(content.spaces, tabs),
         terminals |-> [t \in TerminalsOf(tabs) |-> NewTerminal],
         nextTerminal |-> Max({1} \cup TerminalsOf(tabs)) + 1]

(* The server stops, or crashes: with the checkpoint it has, the one that   *)
(* was being written, or, given the time, one of the final topology.        *)
LastContents ==
    {file} \cup (IF task.state = "written" THEN {task.content} ELSE {})
    \cup (IF Capturable(session) THEN {Content(session, name)} ELSE {})

Started(content) ==
    IF content = NoFile THEN FreshSession ELSE Restored(content)

SavedAtStart(content) ==
    IF content = NoFile THEN [present |-> FALSE, rev |-> 0]
    ELSE [present |-> TRUE, rev |-> 1]

Restart ==
    /\ restarts < MaxRestarts /\ restarts' = restarts + 1
    /\ \E last \in LastContents :
          /\ session' = Started(last) /\ name' = last.name
          /\ saved' = SavedAtStart(last) /\ file' = last
    /\ task' = NoTask
    /\ UNCHANGED <<commands, exits, faults>>

-----------------------------------------------------------------------------
(* What validate_session_snapshot() and the restore of a topology accept:   *)
(* trees that are trees, panes that are leaves, no identity twice, nothing  *)
(* above a limit.                                                           *)
NodeIds == {"node", "restored"} \X Nat
NodeType == [leaf : BOOLEAN, pane : Nat, first : NodeIds, second : NodeIds]
PaneType == [terminal : Nat, owner : Nat]

IsTree(tab) ==
    /\ IsFiniteSet(DOMAIN tab.nodes) /\ DOMAIN tab.nodes \subseteq NodeIds
    /\ \A n \in DOMAIN tab.nodes :
          /\ tab.nodes[n] \in NodeType
          /\ Children(tab.nodes[n]) \subseteq DOMAIN tab.nodes \ {tab.root}
          /\ \/ tab.nodes[n].leaf
             \/ /\ tab.nodes[n].first # tab.nodes[n].second
                /\ tab.nodes[n].pane = 0
    /\ tab.root \in DOMAIN tab.nodes
    /\ \A m \in DOMAIN tab.nodes \ {tab.root} :
          \E n \in DOMAIN tab.nodes : m \in Children(tab.nodes[n])
    /\ \A m, n \in DOMAIN tab.nodes :
          Children(tab.nodes[m]) \cap Children(tab.nodes[n]) # {} => m = n
    /\ \E level \in [DOMAIN tab.nodes -> 0..MaxDepth] :
          \A n \in DOMAIN tab.nodes : \A m \in Children(tab.nodes[n]) :
              level[n] < level[m]

IsTab(tab) ==
    /\ tab = [root |-> tab.root, nodes |-> tab.nodes, panes |-> tab.panes]
    /\ IsTree(tab)
    /\ DOMAIN tab.panes \subseteq Nat /\ IsFiniteSet(DOMAIN tab.panes)
    /\ \A p \in DOMAIN tab.panes : tab.panes[p] \in PaneType
    /\ {tab.nodes[n].pane : n \in Leaves(tab)} = DOMAIN tab.panes
    /\ \A m, n \in Leaves(tab) :
          tab.nodes[m].pane = tab.nodes[n].pane => m = n

IsSession(spaces, tabs) ==
    /\ DOMAIN spaces \subseteq Nat /\ IsFiniteSet(DOMAIN spaces)
    /\ Cardinality(DOMAIN spaces) \in 1..MaxSpaces
    /\ DOMAIN tabs \subseteq Nat /\ IsFiniteSet(DOMAIN tabs)
    /\ UNION Range(spaces) = DOMAIN tabs
    /\ \A a, b \in DOMAIN spaces : spaces[a] \cap spaces[b] # {} => a = b
    /\ \A sp \in DOMAIN spaces : Cardinality(spaces[sp]) \in 1..MaxTabs
    /\ \A t \in DOMAIN tabs :
          IsTab(tabs[t]) /\ Cardinality(DOMAIN tabs[t].panes) \in 1..MaxPanes
    /\ \A t, u \in DOMAIN tabs :
          \A p \in DOMAIN tabs[t].panes, q \in DOMAIN tabs[u].panes :
              \/ p = q
              \/ /\ tabs[t].panes[p].terminal = tabs[u].panes[q].terminal
                 /\ tabs[t].panes[p].terminal # 0
              => t = u /\ p = q

Restorable(content) ==
    /\ content.rev \in Nat \ {0}
    /\ IsSession(content.spaces, content.tabs)
    /\ \A t \in DOMAIN content.tabs :
          \A m, n \in Leaves(content.tabs[t]) : m[2] = n[2] => m = n
    /\ Cardinality(TerminalsOf(content.tabs)) <= MaxTerminals

ASSUME FilesAssumption ==
    \A content \in FirstFiles :
        content.name = 0 /\ (content = NoFile \/ Restorable(content))

Init ==
    /\ file \in FirstFiles
    /\ session = Started(file) /\ name = file.name
    /\ saved = SavedAtStart(file) /\ task = NoTask
    /\ commands = 0 /\ exits = 0 /\ restarts = 0 /\ faults = 0

CommandOn(tab) ==
    \/ CloseTab(tab)
    \/ \E pane \in DOMAIN session.tabs[tab].panes :
          \/ \E domain \in Domains :
                \E owner \in {0} \cup (IF domain = "local"
                                       THEN DOMAIN session.tabs[tab].panes
                                       ELSE {}) :
                    SplitPane(tab, pane, domain, owner)
          \/ ClosePane(tab, pane) \/ RestartPane(tab, pane)
          \/ ReplaceByAgent(tab, pane) \/ AgentBeside(tab, pane)
          \/ \E target \in DOMAIN session.tabs[tab].panes :
                MoveInTab(tab, pane, target) \/ SwapPane(tab, pane, target)
          \/ \E other \in DOMAIN session.tabs :
                \E target \in DOMAIN session.tabs[other].panes :
                    MoveAcross(tab, pane, other, target)

ClientCommand ==
    \/ \E domain \in Domains : CreateSpace(domain)
    \/ \E space \in DOMAIN session.spaces :
          \/ CloseSpace(space) \/ PersonalAgent(space)
          \/ \E domain \in Domains : CreateTab(space, domain)
    \/ \E tab \in DOMAIN session.tabs : CommandOn(tab)
    \/ \E plan \in Layouts : ApplyLayout(plan)
    \/ Touch

Shells ==
    \E t \in DOMAIN session.terminals :
        Ends(t, "clean") \/ Ends(t, "failed")

Next ==
    \/ ClientCommand \/ Shells \/ Pump
    \/ Tick \/ Rename \/ WriterEnds \/ Collect \/ Restart

Spec == Init /\ [][Next]_vars

(* The loop of the state thread goes round, and the thread that writes the  *)
(* checkpoint works beside it; that one of the two goes on is enough.       *)
FairSpec == Spec /\ WF_vars(Pump \/ Tick \/ Collect \/ WriterEnds)

-----------------------------------------------------------------------------
(* Properties.                                                              *)

(* The numbers identities end in.                                           *)
InUse ==
    DOMAIN session.spaces
    \cup UNION {{t} \cup DOMAIN session.tabs[t].panes
                   \cup {n[2] : n \in DOMAIN session.tabs[t].nodes} :
               t \in DOMAIN session.tabs}

(* Type correctness: states of terminals and of the task are of their kind, *)
(* nothing exceeds the limits of a durable Session, and the next identities *)
(* are past everything in use, also after a restore that has to count them  *)
(* from what the file holds.                                                *)
SessionTreeTypeOK ==
    /\ \A n \in InUse : n < session.serial
    /\ \A t \in DOMAIN session.terminals : t < session.nextTerminal
    /\ session.rev \in Nat \ {0}
    /\ Cardinality(DOMAIN session.spaces) \in 1..MaxSpaces
    /\ \A space \in DOMAIN session.spaces :
          Cardinality(session.spaces[space]) \in 1..MaxTabs
    /\ \A t \in DOMAIN session.tabs :
          Cardinality(DOMAIN session.tabs[t].panes) \in 1..MaxPanes
    /\ Cardinality(DOMAIN session.terminals) <= MaxTerminals
    /\ \A t \in DOMAIN session.terminals :
          session.terminals[t].state \in
              {"running", "clean", "failed"}
    /\ task.state \in {"none", "writing", "written", "failed"}
    /\ name \in 0..commands /\ file.name \in 0..name
    /\ saved.present \in BOOLEAN /\ (saved.present <=> file # NoFile)

(* After any sequence of splits, moves, swaps, closes and restores, the     *)
(* nodes of every tab are one binary tree under its root, not deeper than   *)
(* the limit, whose leaves are exactly the tab's panes, each once, and      *)
(* every tab is in exactly one Space.                                       *)
TreesWellFormed ==
    /\ \A t \in DOMAIN session.tabs :
          LET tab == session.tabs[t]
          IN  /\ tab.root \in DOMAIN tab.nodes
              /\ \A n \in DOMAIN tab.nodes :
                    Children(tab.nodes[n]) \subseteq DOMAIN tab.nodes
              /\ IsInjective(Preorder(tab))
              /\ ToSet(Preorder(tab)) = DOMAIN tab.nodes
              /\ IsInjective([n \in Leaves(tab) |-> tab.nodes[n].pane])
              /\ {tab.nodes[n].pane : n \in Leaves(tab)} = DOMAIN tab.panes
              /\ \A n \in Leaves(tab) : Depth(tab, n) <= MaxDepth
    /\ UNION Range(session.spaces) = DOMAIN session.tabs
    /\ \A a, b \in DOMAIN session.spaces :
          a # b => session.spaces[a] \cap session.spaces[b] = {}

PanesWith(t) ==
    {at \in UNION {{tab} \X DOMAIN session.tabs[tab].panes :
                    tab \in DOMAIN session.tabs} :
        session.tabs[at[1]].panes[at[2]].terminal = t}

(* Every terminal the server keeps is the terminal of exactly one pane, and *)
(* every server pane has one: whichever step of a command fails, no shell   *)
(* is leaked and none is shared or lost.                                    *)
TerminalsMatch ==
    /\ DOMAIN session.terminals = TerminalsOf(session.tabs)
    /\ \A t \in DOMAIN session.terminals : Cardinality(PanesWith(t)) = 1

(* The loop removes the panes of shells that ended cleanly and nothing      *)
(* else, though it may take a tab or a Space with the last pane.            *)
PumpSpares ==
    [][Pump => \A t \in DOMAIN session.terminals \ DOMAIN session'.terminals :
                  session.terminals[t].state = "clean"]_vars

(* When the periodic checkpoint has nothing to do, the file shows the       *)
(* Session as it is, whatever changed while it was written.                 *)
FileCurrent ==
    ~Unsaved =>
        /\ file.spaces = session.spaces
        /\ DOMAIN file.tabs = DOMAIN session.tabs
        /\ \A t \in DOMAIN session.tabs :
              /\ Shape(file.tabs[t]) = Shape(session.tabs[t])
              /\ file.tabs[t].panes = session.tabs[t].panes

Closable(t) ==
    /\ session.terminals[t].state = "clean"
    /\ \E tab \in DOMAIN session.tabs :
          tab # TabWith(session, t)
          \/ ~LonePane(session.tabs[tab])

(* A shell that ended cleanly loses its pane in the end, unless that pane   *)
(* is all there is.                                                         *)
ExitsClose == []<>(\A t \in DOMAIN session.terminals : ~Closable(t))

(* Changes reach the file: a failed or overtaken checkpoint is followed by  *)
(* another, as long as the Session can be captured.                         *)
ChangesSaved == []<>(~Unsaved \/ ~Capturable(session))

(* Every change that is accepted can be checkpointed and restored.          *)
AlwaysCapturable == Capturable(session)
=============================================================================
