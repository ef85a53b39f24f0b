---------------------------- MODULE MCStateTrie ----------------------------
EXTENDS StateTrie, TLC

(* Paths that part at the first, the second and the last nibble.           *)
paths == "a1" :> <<0, 0, 0>> @@ "a2" :> <<0, 0, 1>> @@ "a3" :> <<0, 1, 0>> @@ "c" :> <<1, 0, 0>>
         @@ "k1" :> <<1, 1, 0>> @@ "k2" :> <<1, 1, 1>> @@ "k3" :> <<0, 1, 1>>

(* Two contracts and more slots; one contract whose slots change value     *)
(* while a client holds a proof.                                           *)
Wide == [addresses |-> {"a1", "a2", "a3", "c"}, contracts |-> {"a3", "c"},
         keys |-> {"k1", "k2", "k3"}, words |-> {0, 1}, balances |-> {0, 1}, clients |-> {}]
Watched == [addresses |-> {"a2", "a3", "c"}, contracts |-> {"c"}, keys |-> {"k1", "k2"},
            words |-> {0, 1, 2}, balances |-> {0, 1}, clients |-> {"client"}]
AllWorlds == {Wide, Watched}
=============================================================================
