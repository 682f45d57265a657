------------------------------ MODULE MCEthernet ------------------------------
(***************************************************************************)
(* The Ethernet example for TLC, with rings of one or two slots.           *)
(***************************************************************************)
EXTENDS EthernetLink, TLC

Load(outer, inner, t) == [frames |-> "outer" :> outer @@ "inner" :> inner, ticks |-> t]

MCLoads == {Load(<<"through", "through", "through">>, <<>>, 0),
            Load(<<"request", "through">>, <<>>, 1),
            Load(<<"request">>, <<"through">>, 0),
            Load(<<"local", "through">>, <<>>, 0),
            Load(<<"through">>, <<"through">>, 0)}

MCSmallLoads == {Load(<<"through", "through">>, <<>>, 0),
                 Load(<<"request", "request">>, <<>>, 0),
                 Load(<<>>, <<"through">>, 0)}
=============================================================================
