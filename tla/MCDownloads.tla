---------------------------- MODULE MCDownloads ----------------------------
(* The small instance of Downloads that TLC checks.                        *)
EXTENDS DownloadsProperties, TLC

CONSTANTS c1, c2, d1, admin, org, other, fan, here, there, g1, g2, g3, p1, p2, p3, none

Organized == (here :> org) @@ (there :> other)
\* A grant of the originals that runs out, and one that allows none.
Granted == {[id |-> g1, comp |-> here, user |-> fan, original |-> TRUE, expires |-> 0],
            [id |-> g2, comp |-> there, user |-> fan, original |-> FALSE, expires |-> none]}

Homes == (p1 :> here) @@ (p2 :> here) @@ (p3 :> there)
Authors == (p1 :> other) @@ (p2 :> fan) @@ (p3 :> other)
\* Two photos of one name, and one named like the second of these.
Names == (p1 :> <<7>>) @@ (p2 :> <<7, 0>>) @@ (p3 :> <<7, 2>>)

Ask(op, who, k, g, u, x, t, b) ==
  [op |-> op, actor |-> who, comp |-> k, grant |-> g, user |-> u, original |-> x,
   expires |-> t, clear |-> b]
Creates == {Ask("create", org, here, none, fan, TRUE, none, FALSE),
            Ask("create", admin, there, none, org, TRUE, 1, FALSE)}
Updates == {Ask("update", org, here, g1, none, FALSE, none, FALSE),
            Ask("update", admin, here, g1, none, none, 1, TRUE),
            Ask("update", other, there, g2, none, TRUE, 1, FALSE)}
Revokes == {Ask("revoke", org, here, g1, none, none, none, FALSE),
            Ask("revoke", other, there, g1, none, none, none, FALSE)}
Asks == Creates \cup Updates \cup Revokes

Want(op, who, k, ps) == [op |-> op, actor |-> who, comp |-> k, photos |-> ps]
Wants == {Want("one", fan, none, <<p1>>), Want("list", fan, here, <<>>),
          Want("download", fan, none, <<>>), Want("download", org, none, <<p1>>),
          Want("download", fan, none, <<p1, p2>>), Want("download", fan, none, <<p1, p2, p1>>),
          Want("download", other, none, <<p3, p1, p1>>)}

ClientSymmetry == Permutations(Clients)
=============================================================================
