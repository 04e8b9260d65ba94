-------------------------- MODULE PaymentHierarchy --------------------------
(***************************************************************************)
(* The gateways the program works on: buildPaymentTree (main.cpp and       *)
(* simulator.cpp), its calls of AtomicPaymentTree::addNode made before any *)
(* thread starts.  A node is named by its name, as no name comes twice.    *)
(***************************************************************************)
EXTENDS Sequences, SequencesExt

\* nullptr.
null == ""

\* addNode on [root, parent, children]: a node without a parent name becomes
\* the root, a node whose parent is unknown is not added.
addNode(tree, name, parentName) ==
    IF parentName = "" THEN
        [root     |-> name,
         parent   |-> [n \in DOMAIN tree.parent \cup {name} |-> IF n = name THEN null ELSE tree.parent[n]],
         children |-> [n \in DOMAIN tree.children \cup {name} |-> IF n = name THEN <<>> ELSE tree.children[n]]]
    ELSE IF parentName \notin DOMAIN tree.parent THEN tree
    ELSE
        [root     |-> tree.root,
         parent   |-> [n \in DOMAIN tree.parent \cup {name} |-> IF n = name THEN parentName ELSE tree.parent[n]],
         children |-> [n \in DOMAIN tree.children \cup {name} |->
                          IF n = name THEN <<>>
                          ELSE IF n = parentName THEN Append(tree.children[n], name)
                          ELSE tree.children[n]]]

EmptyTree == [root |-> null, parent |-> <<>>, children |-> <<>>]

Calls == <<
    <<"PaymentSystem", "">>,
    <<"Cards", "PaymentSystem">>, <<"UPI", "PaymentSystem">>, <<"Wallets", "PaymentSystem">>,
    <<"Visa", "Cards">>, <<"Mastercard", "Cards">>, <<"RuPay", "Cards">>,
    <<"GPay", "UPI">>, <<"PhonePe", "UPI">>, <<"BHIM", "UPI">>,
    <<"Paytm", "Wallets">>, <<"AmazonPay", "Wallets">>,
    <<"HDFC", "Visa">>, <<"ICICI", "Visa">>, <<"SBI", "Mastercard">>, <<"Axis", "Mastercard">>,
    <<"PNB", "RuPay">>, <<"BOB", "RuPay">> >>

buildPaymentTree ==
    FoldLeft(LAMBDA tree, c : addNode(tree, c[1], c[2]), EmptyTree, Calls)

\* simulateTransactions: the names a transaction's gateway is drawn from.
gateways == {"HDFC", "ICICI", "SBI", "Axis", "PNB", "BOB",
             "GPay", "PhonePe", "BHIM", "Paytm", "AmazonPay"}

\* verifyTreeInvariants: the names it looks up.
allNodes == {"PaymentSystem", "Cards", "UPI", "Wallets", "Visa", "Mastercard", "RuPay",
             "GPay", "PhonePe", "BHIM", "Paytm", "AmazonPay",
             "HDFC", "ICICI", "SBI", "Axis", "PNB", "BOB"}

\* What the callers take for granted of the lists above: every name they use is
\* a node, the final check leaves no node out, and gateways are leaves.
ASSUME HierarchyAssumption ==
    /\ DOMAIN buildPaymentTree.parent = allNodes
    /\ gateways \subseteq allNodes
    /\ \A g \in gateways : buildPaymentTree.children[g] = <<>>

=============================================================================
