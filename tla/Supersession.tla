---------------------------- MODULE Supersession ----------------------------
(***************************************************************************)
(* The supersession graph of an archive (trellis/supersession.rs): the chains *)
(* the head chain replaced, each pinned by a checkpoint and, when its bundle  *)
(* travels along, verified in turn, graph below graph.                        *)
(***************************************************************************)
EXTENDS ExportClauses

\* The graph's member is there, is the one the manifest binds, and parses.
GraphReadable(a) ==
    /\ HasMember(a, GraphMember)
    /\ MemberDigest(a, GraphMember) = a.manifest.supersession.digest
    /\ a.graph # None

\* The checks verify_supersession_graph and nested_supersession_graph share.
GraphHeaderFailures(a) ==
    IF ~GraphReadable(a) THEN {"SupersessionGraphInvalid"}
    ELSE KindIf(Len(a.graph.rows) # a.manifest.supersession.count, "SupersessionGraphInvalid")
    \cup KindIf(a.graph.head # a.manifest.scope, "SupersessionGraphHeadMismatch")

GraphLinkageFailures(a) ==
    KindIf(\E i \in Decodable(a) :
              LET linkage == a.events[i].supersedes
              IN  linkage # None /\ ~\E row \in ToSet(a.graph.rows) :
                      row.chainId = linkage.chainId /\ row.checkpointHash = linkage.checkpointHash,
           "SupersessionGraphLinkageMismatch")

GraphCycleFailures(a) ==
    LET rows == a.graph.rows
    IN  KindIf(\E k \in DOMAIN rows :
                  \/ rows[k].chainId = a.graph.head
                  \/ \E j \in 1..(k - 1) : rows[j].chainId = rows[k].chainId,
               "SupersessionGraphCycle")

-----------------------------------------------------------------------------
(* verify_predecessor_bundles.  path holds the chains above the rows.          *)

RowMatches(a, row) ==
    LET bundle == MemberDigest(a, row.bundle)
    IN  /\ bundle # None /\ BundleVerifies[bundle]
        /\ Bundles[bundle].manifest.head = row.checkpointHash
        /\ Bundles[bundle].manifest.scope = row.chainId

\* A slip: the chains further up are forgotten on the way down.
PathBelowForgetful(path, chain) == {chain}

PathBelow(path, chain) == path \cup {chain}

\* below: what the walk finds in the rows of the row's own bundle.
RowFailures(a, row, path, below) ==
    LET nested == Bundles[MemberDigest(a, row.bundle)]
    IN  IF row.chainId \in path THEN {"SupersessionGraphCycle"}
        ELSE IF row.bundle = None THEN {}
        ELSE IF ~RowMatches(a, row) THEN {"SupersessionPredecessorCheckpointMismatch"}
        ELSE IF nested.manifest.supersession = None THEN {}
        ELSE GraphHeaderFailures(nested) \cup IF GraphReadable(nested) THEN below ELSE {}

\* A walk has come to an archive that replaces chains, below the chains of its path.
NestedFailures[walk \in Replacing \X SUBSET Scopes] ==
    LET a == Bundles[walk[1]]
        path == walk[2]
    IN  UNION {RowFailures(a, row, path, NestedFailures[<<MemberDigest(a, row.bundle),
                                                          PathBelow(path, row.chainId)>>]) :
                  row \in ToSet(a.graph.rows)}

PredecessorFailures(a) ==
    LET head == {a.graph.head}
    IN  UNION {RowFailures(a, row, head, NestedFailures[<<MemberDigest(a, row.bundle),
                                                          PathBelow(head, row.chainId)>>]) :
                  row \in ToSet(a.graph.rows)}

\* verify_unbound_supersession_graph, then verify_supersession_graph.
SupersessionFailures(a) ==
    IF a.manifest.supersession = None
    THEN KindIf(HasMember(a, GraphMember), "SupersessionGraphUnbound")
    ELSE GraphHeaderFailures(a)
         \cup IF GraphReadable(a)
              THEN UNION {GraphLinkageFailures(a), GraphCycleFailures(a),
                          PredecessorFailures(a)}
              ELSE {}
=============================================================================
