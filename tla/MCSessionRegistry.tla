------------------------ MODULE MCSessionRegistry ------------------------
(***************************************************************************)
(* Snapshot families for the model-checked instances of SessionRegistry.    *)
(***************************************************************************)
EXTENDS SessionRegistry, TLC

\* Openers are interchangeable: no definition names one of them.
OpenerSymmetry == Permutations(Openers)

Plain == [uuid |-> "k1", speed |-> 0, connectors |-> 0, forbiddenIPs |-> {},
          forbiddenPorts |-> {}, disconnectIPs |-> {}]

Panel(speed, connectors, users) ==
    [speed |-> speed, connectors |-> connectors, users |-> users]

\* u1 with another policy, every other user plain.
WithU1(p) == [u \in UserIDs |-> IF u = "u1" THEN p ELSE Plain]

\* Every kind of policy change of one user, a rate of the node, and a user
\* who is gone.
PolicySnapshots ==
    {Panel(0, 0, WithU1(p)) : p \in
        {Plain,
         [Plain EXCEPT !.uuid = "k2", !.speed = 8],
         [Plain EXCEPT !.forbiddenPorts = {443}],
         [Plain EXCEPT !.disconnectIPs = {"s1"}]}}
    \cup {Panel(4, 0, WithU1([Plain EXCEPT !.forbiddenIPs = {"a1"}])),
          Panel(0, 0, [u \in UserIDs \ {"u1"} |-> Plain])}

\* Connector limits of the node and of the user.
ConnectorSnapshots ==
    {Panel(0, node, WithU1([Plain EXCEPT !.connectors = user])) :
        node \in {0, 1, 2}, user \in {0, 2}}
    \cup {Panel(0, 1, WithU1([Plain EXCEPT !.disconnectIPs = {"s1"}]))}

\* One user who may connect from three sources, on a node that allows as many,
\* two of them, or one while it disconnects s1: Update has to choose by age.
AgeSnapshots ==
    LET three == [Plain EXCEPT !.connectors = 3]
    IN  {Panel(0, 0, WithU1(three)),
         Panel(0, 2, WithU1(three)),
         Panel(0, 1, WithU1([three EXCEPT !.disconnectIPs = {"s1"}]))}
=============================================================================
