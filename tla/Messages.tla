------------------------------- MODULE Messages -------------------------------
(***************************************************************************)
(* The six message types of internal/core: Validate, ValidateFields, what  *)
(* Enqueue fills in, and the JSON of a context (context.go, json.go).  A   *)
(* string is "" when empty, a pointer when nil.                            *)
(***************************************************************************)
EXTENDS FiniteSetsExt, Sequences

Types == {"alias", "group", "identify", "page", "screen", "track"}

\* The field that one type alone has, called subject below.
SubjectOf == [alias |-> "previousId", group |-> "groupId", track |-> "event"]

Message == [type : Types, userId : {"", "u"}, anonymousId : {"", "a"}, subject : {"", "s"},
            messageId : {"", "given"}, timestamp : {"", "given"}, context : {"", "own"}]

\* Alias has no anonymous id, and only three types have a subject.
WellFormed(m) == /\ m.type = "alias" => m.anonymousId = ""
                 /\ m.type \notin DOMAIN SubjectOf => m.subject = ""

\* What the Validate of each type asks for, in the order of its tests.
AliasNeeds == <<"userId", "previousId">>
GroupNeeds == <<"groupId", "userId">>
IdentifyNeeds == <<"userId">>
PageNeeds == <<"userId">>
ScreenNeeds == <<"userId">>
TrackNeeds == <<"event", "userId">>

Needs == [alias |-> AliasNeeds, group |-> GroupNeeds, identify |-> IdentifyNeeds,
          page |-> PageNeeds, screen |-> ScreenNeeds, track |-> TrackNeeds]

\* An anonymous id does for a user id.
Missing(m, field) == IF field = "userId" THEN m.userId = "" /\ m.anonymousId = ""
                                         ELSE m.subject = ""

\* The field named by the FieldError, the first that is missing; "" when the message
\* is valid.
Validate(m) ==
  LET needs == Needs[m.type]
      missing == {i \in DOMAIN needs : Missing(m, needs[i])}
  IN  IF missing = {} THEN "" ELSE needs[Min(missing)]

-------------------------------------------------------------------------------
(* A message as a FieldGetter, and ValidateFields                          *)

\* Two maps as one: f, and g where f says nothing (@@, which the provers do not know).
Over(f, g) == [x \in DOMAIN f \union DOMAIN g |-> IF x \in DOMAIN f THEN f[x] ELSE g[x]]

WithoutEmpty(fields) == [f \in {g \in DOMAIN fields : fields[g] # ""} |-> fields[f]]

Fields(m) ==
  WithoutEmpty(Over([f \in {SubjectOf[t] : t \in DOMAIN SubjectOf \intersect {m.type}} |-> m.subject],
                    [type |-> m.type, userId |-> m.userId, anonymousId |-> m.anonymousId,
                     messageId |-> m.messageId, timestamp |-> m.timestamp]))

\* A field that is missing, or not a string, is read as the empty string.
GetString(fields, f) == IF f \in DOMAIN fields THEN fields[f] ELSE ""

Subject(fields) == IF fields["type"] \in DOMAIN SubjectOf
                   THEN GetString(fields, SubjectOf[fields["type"]]) ELSE ""

\* The anonymous id is not read.
ValidateFields_NoAnonymousId(fields) ==
  IF GetString(fields, "type") \notin Types THEN "type"
  ELSE Validate([type |-> fields["type"], userId |-> GetString(fields, "userId"),
                 anonymousId |-> "", subject |-> Subject(fields)])

ValidateFields(fields) ==
  IF GetString(fields, "type") \notin Types THEN "type"
  ELSE Validate([type |-> fields["type"], userId |-> GetString(fields, "userId"),
                 anonymousId |-> GetString(fields, "anonymousId"), subject |-> Subject(fields)])

-------------------------------------------------------------------------------
(* What Enqueue fills in, and the JSON of a context                        *)

MakeMessageId(id, default) == IF id = "" THEN default ELSE id

MakeTimestamp(t, default) == IF t = "" THEN default ELSE t

\* Enqueue's type switch, the same for the six types; the type is set by the
\* library, and a message without a context points to the client's.
Decorate(m, id, ts, defaultContext) ==
  [m EXCEPT !.messageId = MakeMessageId(@, id),
            !.timestamp = MakeTimestamp(@, ts),
            !.context = IF @ = "" THEN defaultContext ELSE @]

\* A Context: two of its struct fields, and the name of the map that Extra refers
\* to, which a copy of the struct shares; "" for a nil map.
Context == [library : {"", "app", "origamy-go"}, locale : {"", "l1", "l2"},
            extra : {"", "app", "own"}]

EmptyContext == [library |-> "", locale |-> "", extra |-> ""]

\* structToMap skips fields with omitempty that are zero, and Extra itself.
StructToMap(c) == WithoutEmpty([library |-> c.library, locale |-> c.locale])

\* Extra is inlined last.
MarshalContext_ExtraWins(c, extra) == Over(extra, StructToMap(c))

\* Extra is inlined first, so that the struct fields take precedence.
MarshalContext(c, extra) == Over(StructToMap(c), extra)

===============================================================================
