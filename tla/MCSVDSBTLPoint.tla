---- MODULE MCSVDSBTLPoint ----
EXTENDS SVDSBTLPoint

MCInput(pair, place, id) == [pair |-> pair, place |-> place, id |-> id]
MCInputs ==
    {MCInput("HmassP", place, 1) : place \in {"edge", "near", "dome", "patch", "band", "patchdome", "outside"}}
    \cup {MCInput("HmassP", "patch", 2), MCInput("PT", "region", 1), MCInput("PT", "sat", 1), MCInput("PSmass", "dome", 1)}
    \cup {MCInput("DmassT", "region", 1), MCInput("DmassT", "dome", 1)}
    \cup {MCInput("QT", "dome", 1), MCInput("PQ", "badQ", 1), MCInput("PQ", "outside", 1)}
MCBackends == {<<"HEOS", "IF97">>, <<"IF97", "HEOS">>}
MCBatches ==
    {<<MCInput("HmassP", "dome", 1), MCInput("HmassP", "patch", 2)>>,
     <<MCInput("HmassP", "outside", 1), MCInput("HmassP", "edge", 1)>>,
     <<MCInput("PT", "sat", 1), MCInput("PT", "region", 1)>>,
     <<MCInput("DmassT", "dome", 1), MCInput("DmassT", "region", 1)>>}
MCOutputs == {<<"u", "w">>, <<"h", "cp">>}
====
