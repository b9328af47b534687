---------------------------- MODULE TopicMatch ----------------------------
(***************************************************************************)
(* The topic matching of mqttclient.c: mqtt_topic_is_matched, the          *)
(* character loop that decides whether a subscription's topic filter       *)
(* matches the topic name of an incoming PUBLISH, mqtt_is_topic_equals,    *)
(* the exact comparison used to detect a duplicate subscription, and       *)
(* mqtt_get_msg_handler, which picks the first handler whose filter        *)
(* equals or matches the topic.  Strings are sequences of one-character    *)
(* strings.  The loop is checked against MqttMatch, the level-by-level     *)
(* matching rules of MQTT 3.1.1 (section 4.7), over every valid filter and *)
(* every topic name up to MaxLen characters.                               *)
(***************************************************************************)
EXTENDS Naturals, Sequences, SequencesExt

CONSTANTS
    Chars,      \* the ordinary characters of topic strings
    MaxLen      \* the longest filter and topic name enumerated

ASSUME MaxLen \in Nat \ {0} /\ Chars \cap {"/", "+", "#"} = {}

VARIABLES
    filter,     \* the topic filter of an installed message handler
    topic       \* the topic name of a PUBLISH the client receives

vars == <<filter, topic>>

Slash == "/"
Plus == "+"
Hash == "#"

(***************************************************************************)
(* Reference: MQTT 3.1.1 matching by levels.                               *)
(***************************************************************************)

\* The levels of a topic string: the pieces between the '/' separators.
RECURSIVE Levels(_)
Levels(s) ==
    LET i == SelectInSeq(s, LAMBDA c : c = Slash)
    IN  IF i = 0 THEN <<s>>
        ELSE <<SubSeq(s, 1, i - 1)>> \o Levels(SubSeq(s, i + 1, Len(s)))

\* A filter is valid when '+' and '#' occupy a whole level and '#' is last.
ValidFilter(f) ==
    LET L == Levels(f)
    IN  /\ Len(f) > 0
        /\ \A k \in 1..Len(L) :
              ({Plus, Hash} \cap ToSet(L[k]) # {}) =>
                  \/ L[k] = <<Plus>>
                  \/ L[k] = <<Hash>> /\ k = Len(L)

RECURSIVE LevelsMatch(_, _)
LevelsMatch(fl, tl) ==
    CASE fl = <<>>              -> tl = <<>>
      [] Head(fl) = <<Hash>>    -> TRUE
      [] tl = <<>>              -> FALSE
      [] OTHER -> /\ Head(fl) \in {<<Plus>>, Head(tl)}
                  /\ LevelsMatch(Tail(fl), Tail(tl))

MqttMatch(f, t) == LevelsMatch(Levels(f), Levels(t))

TopicNames == {t \in BoundedSeq(Chars \cup {Slash}, MaxLen) : Len(t) > 0}
Filters == {f \in BoundedSeq(Chars \cup {Slash, Plus, Hash}, MaxLen) :
                ValidFilter(f)}
WildcardFree(f) == {Plus, Hash} \cap ToSet(f) = {}

(***************************************************************************)
(* The code.  Positions are 1-based; curf = i and curn = j, and a position *)
(* one past the end stands for the terminating '\0' and for curn_end.      *)
(***************************************************************************)

\* strlen(topic_filter) != topic_len, then strncmp over topic_len.
IsTopicEquals(f, t) ==
    /\ Len(f) = Len(t)
    /\ \A k \in 1..Len(t) : f[k] = t[k]

\* Mutant: the return value without the curn == curn_end test.
ResultNoEndCheck(f, n, i, j) == i = Len(f) + 1

\* The value returned when the loop ends or breaks.
Result(f, n, i, j) == j = Len(n) + 1 /\ i = Len(f) + 1

\* Mutant: the inner loop of the '+' case without its '/' test.
RECURSIVE PlusEndCrossLevel(_, _)
PlusEndCrossLevel(n, j) ==
    IF j + 1 <= Len(n) THEN PlusEndCrossLevel(n, j + 1) ELSE j

\* The inner loop of the '+' case: curn moves to the last character of
\* the current level.
RECURSIVE PlusEnd(_, _)
PlusEnd(n, j) ==
    IF j + 1 <= Len(n) /\ n[j + 1] # Slash THEN PlusEnd(n, j + 1) ELSE j

\* One iteration of the while loop, and the loop itself.
RECURSIVE MatchLoop(_, _, _, _)
MatchLoop(f, n, i, j) ==
    IF i > Len(f) \/ j > Len(n) THEN Result(f, n, i, j)
    ELSE IF \/ n[j] = Slash /\ f[i] # Slash
            \/ f[i] \notin {Plus, Hash} /\ f[i] # n[j]
         THEN Result(f, n, i, j)
         ELSE LET jj == CASE f[i] = Plus -> PlusEnd(n, j)
                          [] f[i] = Hash -> Len(n)
                          [] OTHER       -> j
              IN  MatchLoop(f, n, i + 1, jj + 1)

TopicIsMatched(f, n) == MatchLoop(f, n, 1, 1)

\* mqtt_get_msg_handler: the index of the first handler in the list whose
\* filter equals (MQTTPacket_equals) or matches the topic, 0 if none.
GetMsgHandler(handlers, n) ==
    SelectInSeq(handlers,
                LAMBDA f : IsTopicEquals(f, n) \/ TopicIsMatched(f, n))

(***************************************************************************)
(* The specification: any valid filter installed, any topic received.      *)
(***************************************************************************)

Init == filter \in Filters /\ topic \in TopicNames

Subscribe == \E f \in Filters : filter' = f /\ UNCHANGED topic

Receive == \E t \in TopicNames : topic' = t /\ UNCHANGED filter

Next == Subscribe \/ Receive

Spec == Init /\ [][Next]_vars

\* Spec 8 invariant 6: for a filter without wildcards, the loop of
\* mqtt_topic_is_matched agrees with the exact comparison
\* mqtt_is_topic_equals, so the duplicate check and delivery agree.
EqualitySubsumesMatch ==
    WildcardFree(filter) =>
        (TopicIsMatched(filter, topic) <=> IsTopicEquals(filter, topic))

\* mqtt_get_msg_handler never hands a PUBLISH to a handler whose filter
\* does not match its topic under the MQTT 3.1.1 rules.
DeliveredOnlyToMatching ==
    GetMsgHandler(<<filter>>, topic) = 1 => MqttMatch(filter, topic)

\* mqtt_get_msg_handler finds the handler for every topic its filter
\* matches under the MQTT 3.1.1 rules (spec 4.3: '+' matches one level,
\* '#' the remainder including zero levels).
DeliveredToEveryMatching ==
    MqttMatch(filter, topic) => GetMsgHandler(<<filter>>, topic) = 1
=============================================================================
