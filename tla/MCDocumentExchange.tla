------------------------- MODULE MCDocumentExchange -------------------------
EXTENDS DocumentExchange

CONSTANTS a, b, c, k1, k2

Algorithms == (k1 :> "ES256") @@ (k2 :> "EdDSA")

\* Every field of every type.
AllFields == UNION {{<<t, f>> : f \in DOMAIN Types[t]} : t \in DOMAIN Types}

\* Card fields of every kind a hop changes, and one no hop changes.
FourFields == {<<"AgentExtension", "params">>, <<"HttpAuthSecurityScheme", "bearer_format">>,
               <<"AgentCard", "icon_url">>, <<"AgentSkill", "examples">>}

Symmetry == Permutations(Parties)
=============================================================================
