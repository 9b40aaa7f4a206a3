----------------------------- MODULE MCResolver -----------------------------
(***************************************************************************)
(* Instances of NameCachingResolver for TLC.  The names stubs ask for are   *)
(* prefixes of /net/sim/www, like those of run.sh, so that the zones they   *)
(* may lie in are /, /net, /net/sim and /net/sim/www.                       *)
(***************************************************************************)
EXTENDS Resolution, TLC

MCComponent == {"net", "sim", "www", "ns", "ns2", "isp", "isp2"}

Www == <<"net", "sim", "www">>
Zone(n) == GetPrefix(Www, n)
Key(n, label, type) == [zone |-> Zone(n), label |-> label, type |-> type]
NSKey(i, j) == Key(i, GetSubName(Www, i, j - i), "NS")
Ask(n, type) == [rrLabel |-> Zone(n), rrType |-> type]

NS == <<"ns">>
NS2 == <<"ns2">>
ISP == <<"isp">>
ISP2 == <<"isp2">>
NoHint == << >>

\* Name servers run for the root, /net and /net/sim, all behind one hint.
Servers == [z \in {Zone(0), Zone(1), Zone(2)} |-> ISP]
\* The server of /net/sim sits behind another provider.
ServersFH == [z \in {Zone(0), Zone(1), Zone(2)} |-> IF z = Zone(2) THEN ISP2 ELSE ISP]

-----------------------------------------------------------------------------
\* Every way to delegate parts of the name, with or without records at its end.
DelegationKeys == {NSKey(p[1], p[2]) : p \in {p \in (0 .. 2) \X (1 .. 3) : p[1] < p[2]}}
StaticKeys == DelegationKeys \cup {Key(n, GetSuffix(Www, n), "TXT") : n \in 0 .. 2}
StaticDatabases == [StaticKeys -> {<< >>, <<NS>>}]
StaticQuestions == {Ask(3, "TXT"), Ask(3, "NS"), Ask(2, "TXT"), Ask(2, "NS"),
                    DefaultQuery}

-----------------------------------------------------------------------------
\* With forwarding hints: hints present, absent or wrong, one or two servers.
HintChoices ==
  NSKey(0, 1) :> {<< >>, <<NS>>} @@
  NSKey(0, 2) :> {<< >>, <<NS>>} @@
  NSKey(1, 2) :> {<< >>, <<NS>>, <<NS2, NS>>} @@
  Key(0, NS, "FH") :> {<< >>, <<ISP>>, <<ISP2>>} @@
  Key(1, NS, "FH") :> {<< >>, <<ISP2>>} @@
  Key(1, NS2, "FH") :> {<< >>, <<ISP2>>, <<ISP, ISP2>>} @@
  Key(1, <<"sim", "www">>, "TXT") :> {<< >>, <<NS2>>} @@
  Key(2, <<"www">>, "TXT") :> {<< >>, <<NS>>}
HintKeys == DOMAIN HintChoices
HintDatabases ==
  {d \in [HintKeys -> UNION {HintChoices[k] : k \in HintKeys}] :
     \A k \in HintKeys : d[k] \in HintChoices[k]}
HintQuestions == {Ask(3, "TXT"), Ask(2, "NS"), Ask(2, "TXT")}

-----------------------------------------------------------------------------
\* Updates under running queries, with forwarding hints: /net changes its name
\* server and the server its provider.
MovingKeys == {NSKey(0, 1), Key(0, NS, "FH"), Key(0, NS2, "FH"),
               Key(1, NS, "FH"), Key(1, <<"sim", "www">>, "TXT")}
MovingDatabases == {[k \in MovingKeys |-> IF k.type = "FH" THEN <<ISP>> ELSE <<NS>>]}
MovingUpdatable == {<<NSKey(0, 1), NS2>>, <<Key(0, NS, "FH"), ISP2>>}
MovingQuestions == {Ask(3, "TXT")}

=============================================================================
