------------------------------- MODULE MCPreproc -------------------------------
\* Values of the constants of Preproc: command lines with and without markers,
\* with a type named twice, an argument that is skipped, and RDPFs of depths 1
\* and 2, plain and incremental, of widths 1 and 2; and three coroutines that
\* draw more bits than one AND triple has.
EXTENDS Preproc

MCArgLists ==
    {<<Marker(0), RArg(2, TRUE, 1, 1), Arg("m", 2),
       Marker(1), Arg("c", 1), RArg(1, FALSE, 2, 1)>>,
     <<Arg("k", 2), NoArg, Arg("a", 1), Arg("s", 1), Arg("a", 2), Marker(0), Arg("h", 1)>>}

MCOnlineJobs == {<<2, 3>>, <<1, 4, 2>>}

MCEarlier == <<91, 92>>
=============================================================================
