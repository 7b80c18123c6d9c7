---------------------------- MODULE MCComponents ----------------------------
(***************************************************************************)
(* The components that share no state, explored in one run: part names the *)
(* one a behaviour is about, and the others stay at a single idle state.   *)
(* Every behaviour of each component is a behaviour here, so an invariant  *)
(* of this run is an invariant of its component on these constants.        *)
(***************************************************************************)
EXTENDS HotDict, PostingsList, HotFile, HotDocs, ColdSegments, UrlLaws, TextTokens, Wire,
        Manifests, IndexBuild, PartUpload, SegmentImport, ReadPlanner

VARIABLE part

Part == {"dict", "postings", "file", "docs", "cold", "url", "text", "wire", "manifests",
         "build", "upload", "import", "planner"}

-----------------------------------------------------------------------------
(* Instances.                                                              *)

\* Dictionary: an entry with one inline posting, one with a list, one with as many inline
\* postings as fit and one more.
MCInline(n) ==
  [df |-> n, cf |-> 0, postings |-> 0, len |-> 0, skip |-> 0,
   inline |-> [i \in 1 .. n |-> [docid |-> i, tf |-> 1, mask |-> 1]]]
MCEntry == {MCInline(1), [MCInline(0) EXCEPT !.df = 3, !.cf = 4, !.postings = 2, !.len = 1], MCInline(3)}

\* Postings.
MCWidths == <<0, 1, 3, 5>>
MCHit == {[tf |-> 1, mask |-> 1, impact |-> 1], [tf |-> 4, mask |-> 2, impact |-> 2]}

\* Hot files: a base shard and deltas over it, with and without the third field.
MCByte(x) == [byte |-> x]
MCHeader == {[kind |-> "base", gen |-> 2, base |-> 0, trio |-> 1],
             [kind |-> "delta", gen |-> 2, base |-> 1, trio |-> 2],
             [kind |-> "delta", gen |-> 2, base |-> 2, trio |-> 1],
             [kind |-> "base", gen |-> 2, base |-> 1, trio |-> 1]}
MCMeta == {[trio |-> 1, fields |-> <<0, 1>>], [trio |-> 2, fields |-> <<0>>]}
MCStats == {[fields |-> <<0, 1>>], [fields |-> <<0>>]}
MCPayload == {<<>>, <<MCByte("a")>>, <<MCByte("a"), MCByte("b"), MCByte("c")>>,
              <<MCByte("b"), MCByte("b"), MCByte("c"), MCByte("d")>>}
MCOrder == <<0, 8, 1, 2, 6>>

MCRecord == {[url |-> 0], [url |-> 1], [url |-> 2]}
MCValue == {[title |-> 15, anchor |-> 1], [title |-> 1, anchor |-> 15]}

\* Cold segments: fetch times apart and equal, texts of every length, anchors too long.
MCLink(d, a) == [dst |-> d, anchor |-> a]
MCPageRow == {[fp |-> 5, fetch |-> 100, text |-> 0, links |-> {}],
              [fp |-> 2, fetch |-> 130, text |-> 2, links |-> {MCLink(1, 1), MCLink(2, 3)}],
              [fp |-> 9, fetch |-> 130, text |-> 1, links |-> {MCLink(1, 2)}],
              [fp |-> 3, fetch |-> 300, text |-> 3, links |-> {}]}
MCDocmapRow == {[fp |-> f, doc |-> 10 - f] : f \in 1 .. 5}
MCSource == {[src |-> s, dsts |-> d] : s \in {1, 2, 5, 6}, d \in {<<>>, <<2>>, <<1, 4, 5>>}}
MCRawDoc == {[fp |-> f, len |-> f] : f \in {0, 1, 3}}
MCSection == {[id |-> 1, raw |-> <<1>>], [id |-> 3, raw |-> <<>>], [id |-> 4, raw |-> <<1, 2, 3>>]}

\* URLs of different pages: session segments, dot segments, escapes; parameters with and
\* without a key or a value; names, numbers and what is neither.
MCUrl(s, h, p, path, q) == [scheme |-> s, host |-> h, port |-> p, path |-> path, query |-> q]
MCPaths == {<<"/">>, <<"/", "q", "/", "u">>, <<"/", "q", ";", "u", "/">>,
            <<"/", ".", ".", "/", "q", "/", ".">>, <<"/", Escape("/"), "b">>}
MCQueries == {<<>>, << <<"=", "q">> >>, << <<"q", "=", "b">>, <<"q">> >>,
              << <<"u", "q", "=">>, <<"s", "_", "=", "s", "=", "%">> >>}
MCUrls == {MCUrl("http", <<"u", "uni">>, 0, p, q) : p \in MCPaths, q \in MCQueries} \cup
          {MCUrl("https", h, 80, <<"/">>, <<>>) : h \in {<<"q">>, <<"1", "1">>, <<"1", "", "1">>}} \cup
          {MCUrl("http", h, 0, <<"/">>, <<>>) : h \in {<<>>, <<"q", "", "q">>, <<"long">>, <<"::1">>}} \cup
          {MCUrl("ftp", <<"q">>, 80, <<"/">>, <<>>)}

\* Wire: every kind of message, short and long.
MCQTerm(t, hint, op) == [term |-> t, dfHint |-> hint, op |-> op]
MCHitEntry(d, s, f) == [docid |-> d, score |-> s, flags |-> f]
MCBodies == [kd \in 1 .. 8 |->
  CASE kd = KindHello -> {[version |-> 1, nodeID |-> 10, maxInflight |-> 2, maxFrame |-> 20]}
    [] kd = KindQuery -> {[budget |-> 12, k |-> 1, candidates |-> 2, shards |-> <<3>>, terms |-> ts] : ts \in
          {<<MCQTerm(<<4>>, 0, 0)>>, <<MCQTerm(<<4, 1>>, 11, 2), MCQTerm(<<1>>, 0, 1)>>}}
    [] kd = KindQResult -> {[degrade |-> 0, entries |-> es, stats |-> <<1>>] : es \in
          {<<>>, <<MCHitEntry(7, 12, 1), MCHitEntry(1, 0, 0)>>}}
    [] kd = KindSnip -> {[budget |-> 0, terms |-> <<<<1, 2>>, <<1>>>>, docids |-> <<9>>]}
    [] kd = KindSnipResult ->
          {[records |-> <<[docid |-> 1, url |-> <<5>>, title |-> <<>>, snippet |-> <<1, 1>>]>>]}
    [] OTHER -> {[nothing |-> TRUE]}]

\* Build: terms in both fields, more often than a tf or a position can say.
MCPage == {[body |-> <<1, 2, 1>>, title |-> <<>>], [body |-> <<0, 2, 2, 2, 2>>, title |-> <<1>>],
           [body |-> <<1>>, title |-> <<1, 0, 1>>], [body |-> <<0>>, title |-> <<0>>]}

\* Import: three hosts of two partitions; repeated, short, refused and large pages.
MCRec(h, u, t) ==
  [kind |-> "conversion", short |-> FALSE, canonical |-> TRUE, host |-> h, url |-> u, text |-> t, bytes |-> 1]
MCHome == [h \in 1 .. 3 |-> IF h = 2 THEN 2 ELSE 1]
MCFeeds ==
  {<<MCRec(1, "a", "x"), MCRec(2, "b", "x"), MCRec(1, "a", "x"), MCRec(1, "a", "y"), MCRec(3, "c", "x")>>,
   <<MCRec(1, "a", "x"), [MCRec(1, "a", "z") EXCEPT !.short = TRUE], [MCRec(2, "b", "y") EXCEPT !.bytes = 3],
     [MCRec(2, "b", "v") EXCEPT !.kind = "request"], MCRec(2, "b", "y"),
     [MCRec(3, "c", "y") EXCEPT !.canonical = FALSE], MCRec(2, "b", "w")>>}

-----------------------------------------------------------------------------
(* The idle states.                                                        *)

ColdIdle == kind = "page" /\ rows = <<>> /\ seg = Unsealed
UrlIdle == first = (CHOOSE u \in MCUrls : TRUE) /\ url = first /\ spelled = 0
ImportIdle == InitImport /\ feed = (CHOOSE f \in Feeds : TRUE)

ComponentsInit ==
  /\ part \in Part
  /\ DictInit
  /\ PostingsInit
  /\ FileInit
  /\ DocsInit
  /\ IF part = "cold" THEN ColdInit ELSE ColdIdle
  /\ IF part = "url" THEN InitUrl ELSE UrlIdle
  /\ InitText
  /\ InitWire
  /\ InitMan
  /\ BuildIdle
  /\ IF part = "upload" THEN InitUpload ELSE UploadIdle
  /\ IF part = "import" THEN InitImport ELSE ImportIdle
  /\ PlannerIdle

ComponentsNext ==
  /\ UNCHANGED part
  /\ IF part = "dict" THEN DictNext ELSE UNCHANGED dictVars
  /\ IF part = "postings" THEN PostingsNext ELSE UNCHANGED list
  /\ IF part = "file" THEN FileNext ELSE UNCHANGED fileVars
  /\ IF part = "docs" THEN DocsNext ELSE UNCHANGED docsVars
  /\ IF part = "cold" THEN ColdNext ELSE UNCHANGED coldVars
  /\ IF part = "url" THEN NextUrl ELSE UNCHANGED urlVars
  /\ IF part = "text" THEN AddRune ELSE UNCHANGED text
  /\ IF part = "wire" THEN NextWire ELSE UNCHANGED wireVars
  /\ IF part = "manifests" THEN NextMan ELSE UNCHANGED manVars
  /\ IF part = "build" THEN BuildNext ELSE UNCHANGED buildVars
  /\ IF part = "upload" THEN UploadNext ELSE UNCHANGED uploadVars
  /\ IF part = "import" THEN ImportNext ELSE UNCHANGED importVars
  /\ IF part = "planner" THEN PlannerNext ELSE UNCHANGED plannerVars

ComponentsSpec == ComponentsInit /\ [][ComponentsNext]_<<part, dictVars, list, fileVars, docsVars, coldVars, urlVars, text,
    wireVars, manVars, buildVars, uploadVars, importVars, plannerVars>>
=============================================================================
