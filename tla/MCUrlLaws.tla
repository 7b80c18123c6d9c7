----------------------------- MODULE MCUrlLaws -----------------------------
\* An instance of UrlLaws for TLC: URLs whose only query parameter has a malformed key.
EXTENDS UrlLaws

MCSchemes == {"http", "https"}
MCPaths == {<<"/">>, <<"/", "q">>, <<"/", "q", ";", "u", "/">>}
MCKeys == {<<"q">>, <<"u", "_">>, <<"u", "_", "%">>, <<"u", Escape("_"), "%">>}
MCUrls ==
  {[scheme |-> s, host |-> <<"q">>, port |-> 0, path |-> p, query |-> <<key \o <<"=", "q">>>>] :
     s \in MCSchemes, p \in MCPaths, key \in MCKeys}

Spec == InitUrl /\ [][NextUrl]_urlVars
=============================================================================
