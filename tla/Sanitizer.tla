------------------------------- MODULE Sanitizer -------------------------------
(***************************************************************************)
(* What is left of the values of an audit event when it is saved.          *)
(*                                                                         *)
(* A value is a mapping, a sequence or a scalar; what a scalar says does   *)
(* not matter, but that it is the replacement does.                        *)
(*                                                                         *)
(* A key is its text in lower case, cut into pieces: signs, the words      *)
(* between underscores that the listed parts are made of, and what is left *)
(* of the text between those.  A key that is no text has no pieces.        *)
(***************************************************************************)
EXTENDS Naturals, Sequences

CONSTANTS
    Keys,
    MAX_DEPTH,
    MaxDepth,   \* bound on the nesting of values
    MaxItems    \* bound on the length of sequences

ASSUME KeysAreText     == Keys \subseteq Seq(STRING)
ASSUME DepthsAreNumbers == MAX_DEPTH \in Nat /\ MaxDepth \in Nat

SENSITIVE_KEY_PARTS ==
    {<<word>> : word \in {"password", "passwd", "secret", "token", "apikey", "privatekey", "cookie",
                          "authorization", "sessionid", "csrfmiddlewaretoken", "credential",
                          "passphrase", "salt", "signature"}}
        \cup {<<"api", "_", "key">>, <<"private", "_", "key">>, <<"auth", "_", "header">>,
              <<"session", "_", "key">>, <<"encryption", "_", "key">>}

\* The part stands somewhere in the key.
is_sensitive_key(key) ==
    \E part \in SENSITIVE_KEY_PARTS : \E i \in 0 .. Len(key) - Len(part) :
        \A j \in DOMAIN part : key[i + j] = part[j]

Sensitive == {key \in Keys : is_sensitive_key(key)}

Scalar   == [is |-> "scalar"]
REDACTED == [is |-> "redacted"]

\* The mappings that hold the replacement at every hidden key they have.
Mappings(values, hidden) ==
    [is : {"mapping"},
     at : UNION {{m \in [K -> values] : \A key \in K \cap hidden : m[key] = REDACTED} :
                     K \in SUBSET Keys}]
Lists(values) ==
    [is : {"sequence"}, at : UNION {[1 .. n -> values] : n \in 0 .. MaxItems}]

\* The values of each nesting, with all their mappings like that.
ValuesOf(hidden) ==
    LET of[depth \in 0 .. MaxDepth] ==
            {Scalar, REDACTED} \cup
                (IF depth = 0 THEN {} ELSE Mappings(of[depth - 1], hidden) \cup Lists(of[depth - 1]))
    IN  of

Value == ValuesOf({})[MaxDepth]

\* Mutant: what is in a sequence is not looked at.
SanitizeMappings(value, _depth) ==
    LET clean[depth \in 0 .. MAX_DEPTH + 1] ==
            [v \in Value |->
                IF depth > MAX_DEPTH THEN REDACTED
                ELSE IF v.is = "mapping"
                THEN [is |-> v.is, at |-> [key \in DOMAIN v.at |->
                         IF key \in Sensitive THEN REDACTED ELSE clean[depth + 1][v.at[key]]]]
                ELSE v]
    IN  clean[_depth][value]

\* sanitize(value, _depth)
sanitize(value, _depth) ==
    LET clean[depth \in 0 .. MAX_DEPTH + 1] ==
            [v \in Value |->
                IF depth > MAX_DEPTH THEN REDACTED
                ELSE IF v.is = "mapping"
                THEN [is |-> v.is, at |-> [key \in DOMAIN v.at |->
                         IF key \in Sensitive THEN REDACTED ELSE clean[depth + 1][v.at[key]]]]
                ELSE IF v.is = "sequence"
                THEN [is |-> v.is, at |-> [i \in DOMAIN v.at |-> clean[depth + 1][v.at[i]]]]
                ELSE v]
    IN  clean[_depth][value]

----------------------------------------------------------------------------

\* No key with one of the parts keeps what it named, however deep it is.
Harmless(value) == value \in ValuesOf(Sensitive)[MaxDepth]

Alike(value, left, alike) ==
    /\ value.is = left.is
    /\ value.is \in {"mapping", "sequence"} =>
          /\ DOMAIN value.at = DOMAIN left.at
          /\ \A key \in DOMAIN value.at : \/ value.is = "mapping" /\ key \in Sensitive
                                          \/ <<value.at[key], left.at[key]>> \in alike

\* How the value that is left differs: below a sensitive key, or too deep.
OnlyRedacted(value, left) ==
    LET of[levels \in 0 .. MAX_DEPTH + 1] ==
            IF levels = 0 THEN Value \X {REDACTED}
            ELSE {p \in Value \X Value : Alike(p[1], p[2], of[levels - 1])}
    IN  <<value, left>> \in of[MAX_DEPTH + 1]
=============================================================================
