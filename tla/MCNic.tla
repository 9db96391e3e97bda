--------------------------------- MODULE MCNic ---------------------------------
(***************************************************************************)
(* A ring of 32 bytes, two descriptors and frames of every interesting     *)
(* length: shortest, unaligned, longest accepted, too long.  Chunk sizes   *)
(* of one and two digits, in pages whose text looks like chunk borders.    *)
(* Windows of three and four columns, a rule that is longer.               *)
(*                                                                         *)
(* The driver, the configuration of the stack, the response and the page   *)
(* share no variable, so a step of one never matters to another: a         *)
(* behaviour has steps of one.                                             *)
(***************************************************************************)
EXTENDS Nic, NetConfig, Response, Page

VARIABLE part

MCMasks == {<<1, 1>>, <<0, 1>>}

MCDigits == <<"0", "1", "2">>
MCBodies == {<<"a", "1", "m1", "m2", "CR", "LF">>, <<"2", "CR", "LF", "m1", "m2", "a">>}

MCTags == {"br", "h1", "/h1", "h4", "/h4", "p", "div", "li", "td", "hr", "pre", "/pre", "b", "/b",
           "/a", "img"}
MCBullet == <<" ", "*", " ">>
MCRule == <<"-", "-", "-", "-", "-">>
MCTab == <<" ", " ">>

PartInit ==
    /\ part \in {"card", "config", "response", "page"}
    /\ Init /\ ConfigInit /\ PageInit
    /\ ResponseInit /\ (part # "response" => body = CHOOSE x \in Bodies : TRUE)

PartNext ==
    \/ part = "card" /\ Next /\ UNCHANGED <<part, cfgVars, respVars, pageVars>>
    \/ part = "config" /\ ConfigNext /\ UNCHANGED <<part, vars, respVars, pageVars>>
    \/ part = "response" /\ ResponseNext /\ UNCHANGED <<part, vars, cfgVars, pageVars>>
    \/ part = "page" /\ PageNext /\ UNCHANGED <<part, vars, cfgVars, respVars>>

NetSpec == PartInit /\ [][PartNext]_<<part, vars, cfgVars, respVars, pageVars>>
=============================================================================
