----------------------------- MODULE ManagedBlock -----------------------------
(* The block that setup owns in the user's gateway.env, between two markers  *)
(* (internal/hostsetup/hostsetup.go). The file is the sequence of its lines; *)
(* a line is what it is and its text.                                        *)
EXTENDS Integers, Sequences, SequencesExt

Begin == <<"begin", "">>
End == <<"end", "">>
Blank == <<"blank", "">>
User(text) == <<"user", text>>

\* GatewayEnvLines: what differs between two setups is the directory of the TLS bundle.
Managed(tlsDir) == <<"managed", tlsDir>>

AllBlank(lines) == ToSet(lines) \subseteq {Blank}

FirstOf(line, lines, from) ==
    LET at == {k \in from .. Len(lines) : lines[k] = line}
    IN IF at = {} THEN 0 ELSE CHOOSE k \in at : \A j \in at : k <= j

\* strings.TrimRight, of line ends
TrimRight(lines) ==
    LET text == {k \in DOMAIN lines : lines[k] # Blank}
    IN IF text = {} THEN <<>> ELSE SubSeq(lines, 1, CHOOSE k \in text : \A j \in text : j <= k)

\* Defect: everything after the begin marker goes, whether or not there is an end.
RemoveFromMarker(lines) ==
    LET b == FirstOf(Begin, lines, 1) IN IF b = 0 THEN lines ELSE SubSeq(lines, 1, b - 1)

\* One turn of the loop: the first block goes, or everything from a marker without an end.
RemoveFirstBlock(lines) ==
    LET b == FirstOf(Begin, lines, 1)
        e == FirstOf(End, lines, b)
        head == SubSeq(lines, 1, b - 1)
    IN IF b = 0 THEN lines
       ELSE IF e = 0 THEN IF AllBlank(head) THEN <<Blank>> ELSE TrimRight(head)
       ELSE (IF AllBlank(head) THEN <<>> ELSE head) \o SubSeq(lines, e + 1, Len(lines))

\* RemoveManagedBlock: as many turns as there may be blocks
RemoveManagedBlock(lines) ==
    LET after[n \in 0 .. Len(lines)] == IF n = 0 THEN lines ELSE RemoveFirstBlock(after[n - 1])
    IN after[Len(lines)]

\* UpsertManagedBlock
UpsertManagedBlock(lines, tlsDir) ==
    LET stripped == RemoveManagedBlock(lines)
    IN (IF AllBlank(stripped) THEN <<>> ELSE stripped) \o <<Begin, Managed(tlsDir), End>>
=============================================================================
