--------------------------- MODULE MCEntityImport ---------------------------
(* Instances of EntityImport for TLC.                                      *)
EXTENDS EntityImport

MCItem(what, scopes, source, status) ==
    [what |-> what, scopes |-> scopes, source |-> source, status |-> status]
MCAda == MCItem("ada", <<"pub">>, "none", "active")
MCBob == MCItem("bob", <<"pub">>, "none", "archived")

\* Two entities, named in either order, the second created archived, and the
\* first with the scopes an update may give it.
MCItems == {MCAda, MCBob, MCItem("ada", <<"priv">>, "none", "active")}
MCBatches == {<<MCAda>>, <<MCAda, MCBob>>, <<MCBob, MCAda>>, <<MCAda, MCAda>>}

\* One entity from two sources.
MCSourceItems == {MCItem("ada", <<"pub">>, "vault", "active"), MCAda}
MCSourceBatches == {<<i>> : i \in MCSourceItems}
=============================================================================
