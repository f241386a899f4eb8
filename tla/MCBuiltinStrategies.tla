----------------------------- MODULE MCBuiltinStrategies -----------------------------
EXTENDS BuiltinStrategies

Bar(open, high, low, close, volume) ==
    [open |-> open, high |-> high, low |-> low, close |-> close, volume |-> volume]

Quiet  == Bar(5, 5, 5, 5, 1)
Rise   == Bar(6, 8, 6, 8, 4)
Drop   == Bar(4, 4, 2, 2, 4)
Bottom == Bar(2, 10, 0, 1, 1)
Peak   == Bar(8, 10, 0, 9, 1)

MCShapes == {Quiet, Rise, Drop, Bottom, Peak}

\* With three more candles of any shape, every strategy buys and sells after one of these.
MCHistories ==
    {<<Quiet, Quiet, Quiet, Quiet, Quiet, Quiet, Quiet>>,
     <<Bottom, Bottom, Peak, Peak, Rise, Quiet, Drop>>,
     <<Peak, Peak, Bottom, Bottom, Drop, Quiet, Rise>>,
     <<Rise, Quiet, Drop, Bottom, Quiet, Peak, Drop>>}
=====================================================================================
