----------------------------- MODULE MCUnitFile -----------------------------
(***************************************************************************)
(* Every socket name and every argument of up to three symbols, the ones   *)
(* that start like a socket argument with two more, and every pair of      *)
(* arguments of one symbol.                                                *)
(***************************************************************************)
EXTENDS UnitFile

Some == {"a", "t", "/", ".", "%", "\\", "\"", " ", "nl", "ExecStart=:"}

Texts(n) == UNION {[1..k -> Some] : k \in 0..n}

Plain1 == <<"a">>

MCRequests ==
    [name : Texts(3), exe : {<<"/", "a">>}, args : {<<Plain1>>}]
    \cup [name : {Plain1}, exe : {<<"/", "a">>},
          args : {<<arg>> : arg \in Texts(3) \cup {Prefix \o t : t \in Texts(2)}}]
    \cup [name : {Plain1}, exe : {<<"pipeferry.exe">>, Plain1, NoText},
          args : {<<>>} \cup {<<x, y>> : x \in Texts(1), y \in Texts(1)}]

MCPaths == {<<"/", "a">>, <<"/", " ", "%">>, <<"/", "\"", "\\", "%">>, <<"/", "nl">>}

MCEdits == Texts(1) \cup {<<".", ".">>, <<"a", "/">>, <<"a", "%">>}
=============================================================================
