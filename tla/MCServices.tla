----------------------------- MODULE MCServices -----------------------------
(* Services with the values a configuration file cannot hold.              *)
EXTENDS Services

(* An order and a request of any kind, under one key.                      *)
OneKey(r) == "k1"
OrderAndAny(r) == IF r = "r1" THEN {"order"}
                  ELSE {"account", "quote", "list", "validate", "order", "change"}

(* Samples that pass, that pass without a ranking score, and that fail;    *)
(* a gate that asks for an edge and one that is switched off.              *)
Sample(acc, auc, base) == [acc |-> acc, auc |-> auc, base |-> base]
FourSamples == {Sample(60, 60, 50), Sample(55, 52, 40), Sample(54, NoAuc, 52), Sample(50, 60, 50)}
ThreeConfigs == {[edge |-> 0, label |-> "close", persist |-> TRUE],
                 [edge |-> 5, label |-> "close", persist |-> TRUE],
                 [edge |-> -100, label |-> "barrier", persist |-> FALSE]}

EdgesAroundNone == {-1, 1, 2}

(* The comment of k2's order is k2, and k1 is a part of k2.                *)
FirstInSecond == {<<"k1", "k2">>, <<"k2", "k2">>}
=============================================================================
