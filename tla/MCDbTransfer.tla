---------------------------- MODULE MCDbTransfer ----------------------------
EXTENDS DbTransfer

Db(name, resDB, reset, app, sort, kinds) ==
    [name |-> name, resDB |-> resDB, reset |-> reset, appInfo |-> app,
     sortInfo |-> sort, records |-> [i \in DOMAIN kinds |-> [n |-> i, kind |-> kinds[i]]]]

\* In RAM: a record database with either block and something gone at either
\* end, and two applications that make three pages of a list.
Ram == {<<>>} \cup
    {<<Db("memo", FALSE, FALSE, app, None, kinds), Db("game", TRUE, FALSE, None, None, <<"code">>),
       Db("tool", TRUE, FALSE, None, "sort", <<"code", "code">>)>> :
         app \in {None, "app"},
         kinds \in {<<"gone", "live">>, <<"live", "gone", "live">>, <<>>}}

\* In ROM: blocks that are there and blocks that are not.
Rom == {<<>>, <<Db("fonts", TRUE, FALSE, "app", None, <<"code">>)>>,
        <<Db("prefs", FALSE, FALSE, None, None, <<"live">>),
          Db("fonts", TRUE, FALSE, "app", "sort", <<>>)>>}

\* To install: a newer memo, a system update, an application that replaces a
\* part of the ROM, and one that must be started after a reset.
Installs == {
    Db("memo", FALSE, FALSE, "app2", "sort2", <<"live", "gone">>),
    Db("patch", TRUE, TRUE, None, None, <<"code">>),
    Db("fonts", TRUE, FALSE, None, None, <<"code">>),
    Db("game", TRUE, FALSE, "app2", None, <<"boot", "code">>) }
=============================================================================
