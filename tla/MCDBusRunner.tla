---------------------------- MODULE MCDBusRunner ----------------------------
(***************************************************************************)
(* An instance of DBusRunner for TLC: two services, of which the runner    *)
(* knows both or only one, and a few replies to Config.                    *)
(***************************************************************************)
EXTENDS DBusRunner

\* Of the two that watch the bus the one with lifecycle methods has fewer events.
MCMetas ==
    { [wildcard |-> TRUE, once |-> FALSE, lifecycle |-> FALSE, unique |-> FALSE,
        min |-> 0, regex |-> {}, events |-> 3],
      [wildcard |-> TRUE, once |-> TRUE, lifecycle |-> TRUE, unique |-> FALSE,
        min |-> 3, regex |-> {}, events |-> 2],
      [wildcard |-> FALSE, once |-> TRUE, lifecycle |-> TRUE, unique |-> TRUE,
        min |-> 3, regex |-> {[word |-> <<"d">>, anchored |-> TRUE]}, events |-> 3] }
MCRunnerId == <<"r", "u", "n">>
MCImage == [width |-> 2, height |-> 3, rowStride |-> 7, bitsPerSample |-> 8, channels |-> 3,
            length |-> 19]
MCRemotes ==
    { [id |-> <<>>], [id |-> <<"_">>, actions |-> {"open"}],
      [id |-> <<"r", "u", "n", "_">>],
      [id |-> <<"a", "_", "b">>, actions |-> {}, image |-> MCImage] }
MCActionLists == {{"open"}}
MCTerms == UNION {[1..n -> {"d", "f"}] : n \in 1..3}
MCConfigs ==
    { [actions |-> {"open"}, min |-> 3, regex |-> {[word |-> <<"d">>, anchored |-> TRUE]},
       words |-> <<<<>>, <<"d", "f">>, <<"f">>>>] }
MCQueries == {<<"d">>, <<"d", "f">>}

\* ImageTheorem on small pictures, with lines that overlap or leave gaps.
ASSUME ImagesAreDecoded ==
    \A w, h \in 1..2, stride \in 1..7, channels \in {3, 4}, length \in 0..16 :
        LET image == [width |-> w, height |-> h, rowStride |-> stride, bitsPerSample |-> 8,
                      channels |-> channels, length |-> length]
            lines == DecodeImage(image).lines
        IN  /\ lines = {y \in 0..(h - 1) : BytesRead(image, y) \subseteq 0..(length - 1)}
            /\ \A y \in lines : 0..y \subseteq lines
=============================================================================
