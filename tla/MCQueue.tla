------------------------------ MODULE MCQueue ------------------------------
(* Small instances of Queue for TLC.                                       *)
EXTENDS Queue

CONSTANTS daemon, reader, other   \* keys

Readers == {reader}
Ids == {"q1", "q2", "o1", "o2"}
Texts == <<"word", "padded", "blank", "long", "">>

Voice == [url |-> "https", sha256 |-> "sha256", media_type |-> "audio/mpeg",
          byte_count |-> "bytes", label |-> None]
File(label) == [Voice EXCEPT !.media_type = "text/plain", !.label = label]
Opt(id, description) == [id |-> id, title |-> "padded", description |-> description]
Ask(id, kind, options) ==
  [id |-> id, kind |-> kind, title |-> "word", short_title |-> "padded",
   description |-> None, options |-> options]

Item(id, time, parent, questions) ==
  [id |-> id, author |-> daemon, created_at |-> time, agent_name |-> "", subject |-> "word",
   summary |-> "", body |-> "word", audio |-> Voice, attachments |-> <<>>,
   questions |-> questions, attach |-> parent]

Choose == Ask("q1", "single", << Opt("o1", None), Opt("o2", "padded") >>)
Explain == Ask("q2", "freeform", <<>>)

\* A question, two children, a grandchild, and another item of the same second.
Crowd == {Item(1, 2, None, <<Choose, Explain>>), Item(2, 2, 1, <<>>), Item(3, 1, 1, <<>>),
          Item(4, 2, 3, <<>>), Item(5, 2, None, <<>>)}

Questionnaires ==
  << <<>>, <<Explain>>, <<Choose, Explain>>, <<Explain, Explain>>, <<Choose, Explain, Choose>>,
     << Ask("q1", "multiple", << Opt("o1", "blank") >>) >>,
     << Ask("q1", "multiple", << Opt("o1", None), Opt("o1", None) >>) >>,
     << Ask("q1", "multiple", << Opt("o1", "word"), Opt("o2", None), Opt("q1", None) >>) >>,
     << Ask("q1", "single", <<>>) >>,
     << [Explain EXCEPT !.description = "padded"] >>,
     << [Explain EXCEPT !.short_title = "long"] >>,
     << [Explain EXCEPT !.id = "no id"] >> >>

Attached ==
  << <<>>, <<File("word")>>, <<File("padded")>>, <<File(None)>>,
     <<File("word"), File("padded")>>, <<File("word"), File("word"), File("word")>>,
     <<[File("word") EXCEPT !.sha256 = "word"]>> >>

Unlabelled == << <<File("blank")>>, <<File("word"), File("long")>> >>

Sketch(s, u, g, a, files, q) ==
  [Item(100000 + 10000 * s + 1000 * u + 100 * a + q, 1, None, Questionnaires[q]) EXCEPT
     !.subject = Texts[s], !.summary = Texts[u], !.agent_name = Texts[g], !.body = Texts[s],
     !.attachments = files[a]]

Sketches(files) ==
  {Sketch(s, u, ((u + q) % 5) + 1, a, files, q) :
     s \in 1..5, u \in 1..5, a \in DOMAIN files, q \in DOMAIN Questionnaires}

Reply(id, question, values) ==
  [id |-> id, author |-> reader, created_at |-> 3, root_event_id |-> 1, content |-> "word",
   answers |-> << [question_id |-> question, values |-> values] >>]

UserReplies ==
  {Reply(13, "q1", <<"o1">>), Reply(14, "q2", <<"padded">>), Reply(15, "q1", <<>>),
   Reply(16, "q2", <<"long">>), Reply(17, "q1", <<"o1", "o2">>)}

Post(id, author, time, type, tags) ==
  [id |-> id, author |-> author, created_at |-> time, kind |-> 9, content |-> "word",
   tags |-> << <<"h", GroupId>>, <<"tts29", type, "1">> >> \o tags]
Root == <<"e", 1, "", "root">>

Posts ==
  {Post(6, reader, 3, "ack", << Root, <<"state", "dismissed">> >>),
   Post(7, reader, 3, "ack", << Root, <<"state", "active">>, <<"reason", "padded">> >>),
   Post(8, other, 2, "reaction", << Root, <<"reaction", "word", "remove">> >>),
   Post(9, other, 1, "reaction", << Root, <<"reaction", "padded", "add">> >>),
   Post(10, other, 3, "answer", << Root, <<"answer", "q1", "o2">> >>),
   Post(11, other, 4, "answer", << Root, <<"answer", "q1", "word">> >>),
   Post(12, other, 4, "answer", << Root, Root, <<"answer", "q1", "o2">> >>)}

\* A group with all that, and one with each sketch alone.
Alone(files) == {[items |-> {d}, foreign |-> {}] : d \in Sketches(files)}
AllGroups == {[items |-> Crowd, foreign |-> Posts]} \union Alone(Attached)
LabelGroups == Alone(Attached \o Unlabelled)
NoReplies == {}
=============================================================================
