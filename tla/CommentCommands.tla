-------------------------- MODULE CommentCommands --------------------------
(***************************************************************************)
(* What a comment on a pull request asks the agent to do. The same text is *)
(* read by the GitHub receiver (server/src/handlers/webhook.ts), by the    *)
(* CodeCommit receiver (handlers/codecommit-webhook.ts) and, later, by the *)
(* recovery of feedback, which has a parser of its own                     *)
(* (cli/src/commands/recover-codecommit-feedback.ts).                      *)
(*                                                                         *)
(* A text is a sequence of words, the tokens between white space. A word   *)
(* is a stem with what is glued to it: [pre, stem, post].                  *)
(***************************************************************************)
EXTENDS Naturals, Sequences

CONSTANTS Vocabulary,  \* words a text is made of
          MaxWords,    \* bound on the length of a text
          Places,      \* where a comment stands: "issue", "review" or "reply", a reply
                       \* to a comment of a review
          None

VARIABLES comment,     \* [text, place, by]
          wired,       \* the server has a conversation handler
          github,      \* what each reader made of the comment, None: not read yet
          codecommit,
          recovery

vars == <<comment, wired, github, codecommit, recovery>>
-----------------------------------------------------------------------------
Bare(stem) == [pre |-> "", stem |-> stem, post |-> ""]
Texts == UNION {[1..n -> Vocabulary] : n \in 0..MaxWords}

Init ==
    /\ comment \in [text : Texts, place : Places, by : {"maintainer", "visitor"}]
    /\ wired \in BOOLEAN
    /\ github = None /\ codecommit = None /\ recovery = None

\* The first word with this stem; the parsers look for its first occurrence.
First(text, stem) ==
    LET at == {i \in DOMAIN text : text[i].stem = stem}
    IN  IF at = {} THEN 0 ELSE CHOOSE i \in at : \A j \in at : i <= j

\* The n-th token of what follows the stem of word i: what is glued to it
\* counts as the first one. None past the end.
Token(text, i, n) ==
    LET k == IF text[i].post = "" THEN i + n ELSE i + n - 1
    IN  CASE k = i -> Bare(text[i].post)
          [] k \in DOMAIN text \ {i} -> text[k]
          [] OTHER -> None

FeedbackKind(word) ==
    CASE word = Bare("accept")  -> "thumbs_up"
      [] word = Bare("reject")  -> "thumbs_down"
      [] word = Bare("dismiss") -> "dismissed"
      [] OTHER -> "none"

\* Where /feedback stands at a word boundary, its subcommand; only the first
\* /feedback of a text is looked at.
Subcommand(text) ==
    LET i == First(text, "/feedback")
    IN  IF i = 0 \/ text[i].pre = "x" THEN "none" ELSE FeedbackKind(Token(text, i, 1))

isValidFpPrefix(word) == word = Bare("0123abcd")

\* The receivers' parser: accept and reject take a fingerprint prefix, and any
\* other word after them makes the command malformed.
parseFeedbackCommand(text) ==
    LET arg == Token(text, First(text, "/feedback"), 2)
    IN  IF Subcommand(text) \in {"thumbs_up", "thumbs_down"} /\ arg # None /\ ~isValidFpPrefix(arg)
        THEN "none" ELSE Subcommand(text)

\* The recovery's parser does not look at the argument.
parseFeedbackKind(text) == Subcommand(text)

isSlashCommand(word) ==
    word.pre = "" /\ word.post = "" /\ word.stem \in {"/review", "/skip", "/resume"}

\* Every slash of the text is tried in turn.
firstSlashOnly(text) ==   \* mutant: the search ends at the first slash
    LET at == {i \in DOMAIN text : text[i].stem \in {"/feedback", "/review", "/skip", "/resume"}}
        i == IF at = {} THEN 0 ELSE CHOOSE k \in at : \A j \in at : k <= j
    IN  IF i = 0 \/ ~isSlashCommand(text[i]) THEN 0 ELSE i
slashAt(text) ==
    LET from[i \in 1..Len(text) + 1] ==
            IF i > Len(text) THEN 0 ELSE IF isSlashCommand(text[i]) THEN i ELSE from[i + 1]
    IN  from[1]

\* A word is taken for a path when it contains one of / * . ?
LooksLikePath(word) ==
    \/ word.stem \in {"src/app", "/feedback", "/review", "/skip", "/resume"}
    \/ "." \in {word.pre, word.post}

parseSlashCommand(text) ==
    LET i == slashAt(text)
        arg == Token(text, i, 1)
    IN  CASE i = 0 -> <<"none", "">>
          [] i > 0 /\ text[i].stem = "/review" ->
                <<"review", IF arg # None /\ LooksLikePath(arg) THEN "scoped" ELSE "full">>
          [] OTHER -> <<text[i].stem, "">>

\* The word after the first @review-agent, all but its letters stripped.
parseCommand(text) ==
    LET i == First(text, "@review-agent")
        word == Token(text, i, 1)
    IN  IF i = 0 \/ word = None THEN "none"
        ELSE IF word.stem \in {"review", "/review"} /\ "x" \notin {word.pre, word.post} THEN "review"
        ELSE "other"

-----------------------------------------------------------------------------
Ignored == <<"none", "">>
Mentions(text) == First(text, "@review-agent") # 0

\* A person with write access; CodeCommit has a list of principals instead.
checkAuthz(by) == by = "maintainer"

\* With a conversation handler a reply goes to it or nowhere.
handleConversation(c) ==
    IF Mentions(c.text) /\ checkAuthz(c.by) THEN <<"conversation", "">> ELSE Ignored

handleFeedbackCommand(c) ==
    IF checkAuthz(c.by) THEN <<"feedback", parseFeedbackCommand(c.text)>> ELSE Ignored

handleSlashCommand(c) ==
    IF checkAuthz(c.by) THEN parseSlashCommand(c.text) ELSE Ignored

\* The result of a comment event on GitHub. The jobs, and what /skip and
\* /resume change, are in module WebhookIntake, conversations in CostControl.
handleGithubComment ==
    /\ github = None
    /\ LET c == comment IN
       github' = CASE c.place = "reply" /\ wired -> handleConversation(c)
                   [] parseFeedbackCommand(c.text) # "none" -> handleFeedbackCommand(c)
                   [] parseSlashCommand(c.text) # Ignored -> handleSlashCommand(c)
                   [] parseCommand(c.text) = "review" /\ checkAuthz(c.by) -> <<"review", "full">>
                   [] OTHER -> Ignored
    /\ UNCHANGED <<comment, wired, codecommit, recovery>>

\* The same on CodeCommit, where a review needs no permission.
handleCodecommitComment ==
    /\ codecommit = None
    /\ codecommit' = CASE parseFeedbackCommand(comment.text) # "none" -> handleFeedbackCommand(comment)
                       [] parseCommand(comment.text) = "review" -> <<"review", "full">>
                       [] OTHER -> Ignored
    /\ UNCHANGED <<comment, wired, github, recovery>>

\* The recovery reads the comments of a pull request again.
scrapeComment ==
    /\ recovery = None
    /\ recovery' = IF parseFeedbackKind(comment.text) # "none" /\ checkAuthz(comment.by)
                   THEN <<"feedback", parseFeedbackKind(comment.text)>> ELSE Ignored
    /\ UNCHANGED <<comment, wired, github, codecommit>>

Next == handleGithubComment \/ handleCodecommitComment \/ scrapeComment

Spec == Init /\ [][Next]_vars
-----------------------------------------------------------------------------
Read(result) == result \notin {None, Ignored}

\* A recovery restores the feedback the receiver accepted, as the same kind;
\* it restores more only where a word that is no fingerprint follows accept or
\* reject, which the receiver takes for a malformed command.
RecoveryAgrees ==
    codecommit # None /\ recovery # None =>
        /\ codecommit[1] = "feedback" => recovery = codecommit
        /\ Read(recovery) /\ recovery # codecommit =>
             /\ recovery[2] # "dismissed"
             /\ Token(comment.text, First(comment.text, "/feedback"), 2) # None

\* A comment in the code has the recovery's parser "matching" the receiver's:
\* what it restores was then accepted as the same feedback. Its argument is
\* not looked at, so it is not.
RecoveryMatches ==
    codecommit # None /\ recovery # None => (Read(recovery) => recovery = codecommit)

\* Both platforms understand a maintainer's comment alike, but for the slash
\* commands, which CodeCommit does not have, and for replies on GitHub while a
\* conversation handler takes them.
PlatformsAgree ==
    github # None /\ codecommit # None /\ github # codecommit =>
        \/ comment.by = "visitor" /\ codecommit = <<"review", "full">>
        \/ comment.place = "reply" /\ wired
        \/ \E i \in DOMAIN comment.text : isSlashCommand(comment.text[i])

\* A slash command of a maintainer is obeyed wherever it stands in the text,
\* behind paths and unknown commands too, unless the comment is feedback or
\* goes to the conversation; the first one counts.
FirstSlashObeyed ==
    github # None /\ comment.by = "maintainer" /\ ~(comment.place = "reply" /\ wired)
                  /\ parseFeedbackCommand(comment.text) = "none" =>
        \A i \in DOMAIN comment.text :
            (isSlashCommand(comment.text[i]) /\ \A j \in 1..i - 1 : ~isSlashCommand(comment.text[j]))
            => IF comment.text[i].stem = "/review" THEN github[1] = "review"
               ELSE github = <<comment.text[i].stem, "">>
=============================================================================
