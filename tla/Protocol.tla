------------------------------ MODULE Protocol ------------------------------
(***************************************************************************)
(* The contract of the group's events: how the daemon composes a spoken    *)
(* item, how a client composes an answer, and how both read the rows they  *)
(* are given (tts29-protocol).  These are pure functions of their inputs.  *)
(*                                                                         *)
(* Text is a token that says how it compares with the limit of its field:  *)
(* "" and "blank" hold no visible character, "long" exceeds the limit,     *)
(* "padded" is the text "word" between blanks, and every other token is    *)
(* within the limit.  A tag is a sequence of tokens.  An event id is a     *)
(* positive number, so that two of them compare the way hexadecimal        *)
(* strings do; 0 is a text that is no event id.                            *)
(***************************************************************************)
EXTENDS Integers, Sequences, FiniteSets, SequencesExt

CONSTANTS
  None,             \* an absent value
  GroupId,          \* the group of the daemon and of its clients
  Identifiers,      \* the texts that are question or option ids
  MaxAttachments,   \* 12 in the code
  MaxQuestions,     \* 3 in the code
  MaxOptions        \* 8 in the code, of options and of answer values

ASSUME BoundsAssumption ==
  /\ MaxAttachments \in Nat
  /\ MaxQuestions \in Nat \ {0}
  /\ MaxOptions \in Nat \ {0}

Kinds == {"single", "multiple", "freeform"}
States == {"active", "heard", "dismissed", "archived"}
Choice(kind) == kind \in {"single", "multiple"}

\* What is frozen before it is composed: texts may hold anything.
DurableArtifact ==
  [url : STRING, sha256 : STRING, media_type : STRING, byte_count : STRING,
   label : STRING \union {None}]
QuestionOption == [id : STRING, title : STRING, description : STRING \union {None}]
Question ==
  [id : STRING, kind : Kinds, title : STRING, short_title : STRING,
   description : STRING \union {None}, options : Seq(QuestionOption)]
FrozenSpokenItem(author) ==
  [id : Nat \ {0}, author : {author}, created_at : Nat, agent_name : STRING, subject : STRING,
   summary : STRING, body : STRING, audio : DurableArtifact, attachments : Seq(DurableArtifact),
   questions : Seq(Question), attach : Nat \union {None}]
QuestionAnswer == [question_id : STRING, values : Seq(STRING)]
FrozenAnswer(author) ==
  [id : Nat \ {0}, author : {author}, created_at : Nat, root_event_id : Nat, content : STRING,
   answers : Seq(QuestionAnswer)]

\* The answer of an event of the author.
Answer(author) ==
  [type : {"answer"}, root_id : Nat, event_id : Nat, author : {author}, created_at : Nat,
   value : Seq(QuestionAnswer)]

\* Identifiers are texts without blanks, and an absent value is none of the
\* values that may be there.
ASSUME TextAssumption ==
  /\ GroupId \in STRING
  /\ {"", "blank", "long", "padded", "word", "https", "sha256", "audio/mpeg", "text/plain"}
       \subseteq STRING
  /\ Identifiers \subseteq STRING \ {"", "blank", "long", "padded"}
  /\ None \notin STRING
  /\ None \notin Nat
  /\ None \notin DurableArtifact
  /\ None \notin Seq(Question)
  /\ None \notin Seq(QuestionAnswer)
  /\ \A ids \in SUBSET Identifiers : None \notin [ids -> STRING]
  /\ \A ids \in SUBSET Identifiers : None \notin [ids -> Seq(QuestionOption)]

(***************************************************************************)
(* Reading tags.                                                           *)
(***************************************************************************)
Bounded(text) ==
  CASE text \in {"", "blank", "long"} -> None
    [] text = "padded"                -> "word"
    [] OTHER                          -> text

\* The rows with a value in a column, in their order.
Where(rows, column, value) ==
  LET kept[n \in 0..Len(rows)] ==
        IF n = 0 THEN <<>>
        ELSE IF rows[n][column] = value THEN Append(kept[n - 1], rows[n]) ELSE kept[n - 1]
  IN  kept[Len(rows)]

Rows(event, name) == Where(event.tags, 1, name)

\* The values of a column of rows or of a field of records, and whether no two are equal.
Column(rows, key) == [i \in DOMAIN rows |-> rows[i][key]]
Distinct(values) == IsInjective(values)

\* The value of a tag with one value that has to occur exactly once.
Unique(event, name) ==
  LET rows == Rows(event, name)
  IN  IF Len(rows) = 1 /\ Len(rows[1]) = 2 THEN Bounded(rows[1][2]) ELSE None

\* The value of a tag that may be missing; None only if it is malformed.
Optional(event, name) == IF Rows(event, name) = <<>> THEN "" ELSE Unique(event, name)

GroupMatches(event) == Rows(event, "h") = << <<"h", GroupId>> >>

\* The marker's type, if there is one marker of version 1.
Marker(event) ==
  LET rows == Rows(event, "tts29")
  IN  IF Len(rows) = 1 /\ Len(rows[1]) = 3 /\ rows[1][3] = "1" THEN rows[1][2] ELSE None

\* The one event an event refers to in the given role.
Reference(event, role) ==
  LET rows == Rows(event, "e")
  IN  IF /\ Len(rows) = 1
         /\ Len(rows[1]) = 4
         /\ rows[1][4] = role
         /\ rows[1][2] > 0
         /\ rows[1][3] = ""
      THEN rows[1][2]
      ELSE None

RootEvent(event) == Reference(event, "root")

Artifact(row, labelled) ==
  IF /\ Len(row) = (IF labelled THEN 6 ELSE 5)
     /\ Bounded(row[2]) = "https"
     /\ Bounded(row[3]) = "sha256"
     /\ Bounded(row[4]) \in {"audio/mpeg", "text/plain"}
     /\ row[5] = "bytes"
  THEN [url |-> Bounded(row[2]), sha256 |-> Bounded(row[3]), media_type |-> Bounded(row[4]),
        byte_count |-> row[5], label |-> IF labelled THEN Bounded(row[6]) ELSE None]
  ELSE None

KeyedText(event, name) ==
  LET rows == Rows(event, name)
      ok   == /\ \A row \in Range(rows) :
                   /\ Len(row) = 3
                   /\ row[2] \in Identifiers
                   /\ Bounded(row[3]) # None
              /\ Distinct(Column(rows, 2))
  IN  IF ok
      THEN [id \in {row[2] : row \in Range(rows)} |->
              Bounded((CHOOSE row \in Range(rows) : row[2] = id)[3])]
      ELSE None

\* An option whose description is the empty text has none.
OptionOf(row) ==
  [id |-> row[3], title |-> Bounded(row[4]),
   description |-> IF Len(row) = 5 /\ row[5] # "" THEN Bounded(row[5]) ELSE None]

KeyedOptions(event) ==
  LET rows    == Rows(event, "option")
      of(id)  == Where(rows, 2, id)
      ok      == /\ \A row \in Range(rows) :
                      /\ Len(row) \in {4, 5}
                      /\ row[2] \in Identifiers
                      /\ row[3] \in Identifiers
                      /\ Bounded(row[4]) # None
                      /\ Len(row) = 5 /\ row[5] # "" => Bounded(row[5]) # None
                      /\ Len(of(row[2])) <= MaxOptions
                 /\ \A row \in Range(rows) : Distinct(Column(of(row[2]), 3))
  IN  IF ok
      THEN [id \in {row[2] : row \in Range(rows)} |->
              [i \in DOMAIN of(id) |-> OptionOf(of(id)[i])]]
      ELSE None

At(f, key, default) == IF key \in DOMAIN f THEN f[key] ELSE default

Questions(event) ==
  LET rows         == Rows(event, "question")
      labels       == KeyedText(event, "label")
      descriptions == KeyedText(event, "description")
      options      == KeyedOptions(event)
      ids          == {row[2] : row \in Range(rows)}
      ok == /\ Len(rows) <= MaxQuestions
            /\ labels # None /\ descriptions # None /\ options # None
            /\ \A row \in Range(rows) :
                 /\ Len(row) = 4
                 /\ row[2] \in Identifiers
                 /\ row[3] \in Kinds
                 /\ Bounded(row[4]) # None
                 /\ Choice(row[3]) = (row[2] \in DOMAIN options)
            /\ Distinct(Column(rows, 2))
            /\ DOMAIN labels \union DOMAIN descriptions \union DOMAIN options \subseteq ids
      question(row) ==
        [id |-> row[2], kind |-> row[3], title |-> Bounded(row[4]),
         short_title |-> At(labels, row[2], Bounded(row[4])),
         description |-> At(descriptions, row[2], None),
         options |-> At(options, row[2], <<>>)]
  IN  IF ok THEN [i \in DOMAIN rows |-> question(rows[i])] ELSE None

(***************************************************************************)
(* Parsing.  A parsed event is a record with its type, or None.            *)
(***************************************************************************)
ParseItem(event) ==
  LET audioRows   == Rows(event, "audio")
      audio       == Artifact(audioRows[1], FALSE)
      rows        == Rows(event, "attachment")
      attachments == [i \in DOMAIN rows |-> Artifact(rows[i], TRUE)]
      attach      == Reference(event, "attach")
  IN  IF /\ Len(audioRows) = 1
         /\ audio # None
         /\ audio.media_type = "audio/mpeg"
         /\ Len(rows) <= MaxAttachments
         /\ None \notin Range(attachments)
         /\ \A a \in Range(attachments) : a.label # None
         /\ Rows(event, "e") = <<>> \/ attach # None
         /\ Optional(event, "agent") # None
         /\ Unique(event, "title") # None
         /\ Optional(event, "summary") # None
         /\ Bounded(event.content) # None
         /\ Questions(event) # None
      THEN [type |-> "item", id |-> event.id, author |-> event.author,
            created_at |-> event.created_at,
            agent_name |-> Optional(event, "agent"), subject |-> Unique(event, "title"),
            summary |-> Optional(event, "summary"), body |-> Bounded(event.content),
            audio |-> audio, attachments |-> attachments, questions |-> Questions(event),
            attach |-> attach]
      ELSE None

Related(event, value, type) ==
  IF value = None \/ RootEvent(event) = None
  THEN None
  ELSE [type |-> type, root_id |-> RootEvent(event), event_id |-> event.id,
        author |-> event.author, created_at |-> event.created_at, value |-> value]

ParseAnswer(event) ==
  LET rows == Rows(event, "answer")
      ok   == /\ Len(rows) \in 1..MaxQuestions
              /\ \A row \in Range(rows) :
                   /\ Len(row) \in 3..(MaxOptions + 2)
                   /\ row[2] \in Identifiers
                   /\ \A i \in 3..Len(row) : Bounded(row[i]) # None
              /\ Distinct(Column(rows, 2))
      answer(row) == [question_id |-> row[2],
                      values |-> [i \in 1..(Len(row) - 2) |-> Bounded(row[i + 2])]]
  IN  Related(event, IF ok THEN [i \in DOMAIN rows |-> answer(rows[i])] ELSE None, "answer")

ParseAcknowledgement(event) ==
  LET state == Unique(event, "state")
      ok    == state \in States /\ Optional(event, "reason") # None
  IN  Related(event, IF ok THEN state ELSE None, "ack")

ParseReaction(event) ==
  LET rows == Rows(event, "reaction")
      ok   == /\ Len(rows) = 1
              /\ Len(rows[1]) = 3
              /\ rows[1][3] \in {"add", "remove"}
              /\ Bounded(rows[1][2]) # None
  IN  Related(event,
              IF ok THEN [emoji |-> Bounded(rows[1][2]), active |-> rows[1][3] = "add"] ELSE None,
              "reaction")

Parse(event) ==
  IF event.kind # 9 \/ ~GroupMatches(event)
  THEN None
  ELSE CASE Marker(event) = "item"     -> ParseItem(event)
         [] Marker(event) = "answer"   -> ParseAnswer(event)
         [] Marker(event) = "ack"      -> ParseAcknowledgement(event)
         [] Marker(event) = "reaction" -> ParseReaction(event)
         [] OTHER                      -> None

(***************************************************************************)
(* Composing.  A frozen item or answer becomes an event; NMP's group send  *)
(* adds the tag of the group and the hash of all the rest as the id, which *)
(* the frozen value carries here.                                          *)
(***************************************************************************)
ArtifactRow(value, name) ==
  <<name, value.url, value.sha256, value.media_type, value.byte_count>>
    \o IF value.label = None THEN <<>> ELSE <<value.label>>

ValidArtifact(value, labelled) ==
  Artifact(ArtifactRow(value, IF labelled THEN "attachment" ELSE "audio"), labelled) # None

AbsentOrBounded(text) == text = None \/ Bounded(text) # None

ValidQuestions(questions) ==
  /\ Len(questions) <= MaxQuestions
  /\ Distinct(Column(questions, "id"))
  /\ \A q \in Range(questions) :
       /\ q.id \in Identifiers
       /\ Bounded(q.title) # None
       /\ Bounded(q.short_title) # None
       /\ AbsentOrBounded(q.description)
       /\ Choice(q.kind) = (q.options # <<>>)
       /\ Len(q.options) <= MaxOptions
       /\ Distinct(Column(q.options, "id"))
       /\ \A option \in Range(q.options) :
            /\ option.id \in Identifiers
            /\ Bounded(option.title) # None
            /\ AbsentOrBounded(option.description)

ValidSpokenItem(item) ==
  /\ Bounded(item.subject) # None
  /\ Bounded(item.body) # None
  /\ item.agent_name = "" \/ Bounded(item.agent_name) # None
  /\ item.summary = "" \/ Bounded(item.summary) # None
  /\ item.attach = None \/ item.attach > 0
  /\ ValidArtifact(item.audio, FALSE)
  /\ item.audio.media_type = "audio/mpeg"
  /\ Len(item.attachments) <= MaxAttachments
  /\ \A a \in Range(item.attachments) : ValidArtifact(a, TRUE)
  /\ ValidQuestions(item.questions)

\* Mutated Present: the tag is always written.
MutAlways(name, text) == << <<name, text>> >>

\* A tag that is only written when its value is not the empty text.
Present(name, text) == IF text = "" THEN <<>> ELSE << <<name, text>> >>

QuestionTags(q) ==
  << <<"question", q.id, q.kind, q.title>>, <<"label", q.id, q.short_title>> >>
    \o (IF q.description = None THEN <<>> ELSE << <<"description", q.id, q.description>> >>)
    \o [i \in DOMAIN q.options |->
          <<"option", q.id, q.options[i].id, q.options[i].title>>
            \o IF q.options[i].description = None THEN <<>> ELSE <<q.options[i].description>>]

Tags(item) ==
  << <<"tts29", "item", "1">>, <<"title", item.subject>> >>
    \o Present("agent", item.agent_name)
    \o Present("summary", item.summary)
    \o << ArtifactRow(item.audio, "audio") >>
    \o [i \in DOMAIN item.attachments |-> ArtifactRow(item.attachments[i], "attachment")]
    \o (IF item.attach = None THEN <<>> ELSE << <<"e", item.attach, "", "attach">> >>)
    \o FlattenSeq([i \in DOMAIN item.questions |-> QuestionTags(item.questions[i])])

GroupSend(frozen, content, tags) ==
  [id |-> frozen.id, author |-> frozen.author, created_at |-> frozen.created_at, kind |-> 9,
   content |-> content, tags |-> << <<"h", GroupId>> >> \o tags]

ComposeSpokenItem(item) ==
  IF ValidSpokenItem(item) THEN GroupSend(item, item.body, Tags(item)) ELSE None

ValidAnswers(answers) ==
  /\ Len(answers) \in 1..MaxQuestions
  /\ Distinct(Column(answers, "question_id"))
  /\ \A answer \in Range(answers) :
       /\ answer.question_id \in Identifiers
       /\ Len(answer.values) \in 1..MaxOptions
       /\ \A value \in Range(answer.values) : Bounded(value) # None

ComposeAnswer(answer) ==
  IF /\ answer.root_event_id > 0
     /\ Bounded(answer.content) # None
     /\ ValidAnswers(answer.answers)
  THEN GroupSend(answer, answer.content,
         << <<"tts29", "answer", "1">>, <<"e", answer.root_event_id, "", "root">> >>
           \o [i \in DOMAIN answer.answers |->
                 <<"answer", answer.answers[i].question_id>> \o answer.answers[i].values])
  ELSE None

(***************************************************************************)
(* Which of the answers to an item counts.                                 *)
(***************************************************************************)
ValidAnswer(questions, answers) ==
  /\ Len(answers) \in 1..MaxQuestions
  /\ Distinct(Column(answers, "question_id"))
  /\ \A answer \in Range(answers) :
       \E q \in Range(questions) :
         /\ q.id = answer.question_id
         /\ Distinct(answer.values)
         /\ q.kind \in {"single", "freeform"} => Len(answer.values) = 1
         /\ Choice(q.kind) => Range(answer.values) \subseteq {o.id : o \in Range(q.options)}

\* The order of (created_at, event_id), in which the latest event wins.
Later(a, b) ==
  \/ a.created_at > b.created_at
  \/ a.created_at = b.created_at /\ a.event_id > b.event_id

SelectAnswer(questions, candidates) ==
  LET valid == {c \in candidates : ValidAnswer(questions, c.value)}
  IN  IF valid = {} THEN None
      ELSE CHOOSE c \in valid : \A d \in valid \ {c} : Later(c, d)

(***************************************************************************)
(* What a reader is meant to see of a frozen item: each text without the   *)
(* blanks around it.                                                       *)
(***************************************************************************)
Read(text) == IF text = None THEN None ELSE Bounded(text)
ReadOr(text) == IF text = "" THEN "" ELSE Bounded(text)
ReadAll(record) == [x \in DOMAIN record |-> Read(record[x])]

MeantQuestion(q) ==
  [id |-> q.id, kind |-> q.kind, title |-> Read(q.title),
   short_title |-> Read(q.short_title), description |-> Read(q.description),
   options |-> [i \in DOMAIN q.options |-> ReadAll(q.options[i])]]
MeantQuestions(questions) == [i \in DOMAIN questions |-> MeantQuestion(questions[i])]

Meant(d) ==
  [type |-> "item", id |-> d.id, author |-> d.author, created_at |-> d.created_at,
   agent_name |-> ReadOr(d.agent_name), subject |-> Read(d.subject),
   summary |-> ReadOr(d.summary), body |-> Read(d.body), audio |-> ReadAll(d.audio),
   attachments |-> [i \in DOMAIN d.attachments |-> ReadAll(d.attachments[i])],
   questions |-> MeantQuestions(d.questions), attach |-> d.attach]

BoundedLabels(d) == \A a \in Range(d.attachments) : Bounded(a.label) # None

=============================================================================
