----------------------- MODULE MCDataPlaneValidation -----------------------
(* Instances of DataPlaneValidation small enough for TLC.                     *)
EXTENDS DataPlaneValidation, TLC

\* What base64 makes of a text, with padding and without: one text for each pair
\* of results that there is.  The decoders differ only on texts with "=", where
\* the one without padding fails, and on texts whose length is 2 or 3 over a
\* multiple of 4, where the other one fails.  "b2Zm" is the encoding of "off",
\* "bXlzcWw=" that of "mysql", and line ends are skipped.
MCDecoders ==
    "postgres"  :> [std |-> "garbage", raw |-> "garbage"] @@
    "b2Zm"      :> [std |-> "off",     raw |-> "off"] @@
    ""          :> [std |-> "",        raw |-> ""] @@
    "\n"        :> [std |-> "",        raw |-> ""] @@
    "off"       :> [std |-> Unset,     raw |-> "garbage"] @@
    "bXlzcWw="  :> [std |-> "garbage", raw |-> Unset] @@
    "cassandra" :> [std |-> Unset,     raw |-> Unset]

MCStdDecoding == [text \in DOMAIN MCDecoders |-> MCDecoders[text].std]
MCRawDecoding == [text \in DOMAIN MCDecoders |-> MCDecoders[text].raw]

\* An object holds any of them, or lacks the key.
MCContents == DOMAIN MCDecoders \cup {Unset}

\* An object that may lack the key.
MCIncomplete == {"off", "postgres", Unset}

\* One object is as good as the other.
MCSymmetry == Permutations(ObjectNames)
=============================================================================
