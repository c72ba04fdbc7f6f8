---------------------------- MODULE MCSignalIntake ----------------------------
EXTENDS SignalIntake

CONSTANTS low, high, odd, cut, chat, h1, h2, c1, c2

Texts == {low, high, odd, cut, chat}
Prices == [x \in Texts |-> IF x = high THEN 2 ELSE IF x \in {odd, chat} THEN 0 ELSE 1]
Forms == [x \in Texts |-> IF x = cut THEN "cut" ELSE IF x = chat THEN "other" ELSE "whole"]
Handlers == {h1, h2}
Collectors == {c1, c2}

Quiet == [says |-> {low, high}, captures |-> 2, posts |-> 0, collectors |-> {},
          fresh |-> 0, window |-> 1,
          policy |-> "HOLD", primary |-> "direct", overlap |-> FALSE, again |-> FALSE, refuse |-> FALSE,
          deliveries |-> 0, faults |-> 0, crashes |-> 0, ticks |-> 0]
\* One notification, retried by workers that overlap, lose the answer, crash.
Retrying == [Quiet EXCEPT !.captures = 1, !.says = {low, cut}, !.overlap = TRUE,
                          !.faults = 1, !.crashes = 1, !.ticks = 1]
\* A notification that is updated while the server is at work.
Updating == [Quiet EXCEPT !.says = Texts, !.ticks = 1]
\* The same, with requests that are lost and sent again.
Repeating == [Quiet EXCEPT !.faults = 1, !.crashes = 1]
\* Two collectors deliver, and deliver again, what the phone shows too.
Reaching == [Quiet EXCEPT !.captures = 1, !.posts = 1, !.collectors = Collectors,
                          !.again = TRUE, !.deliveries = 2, !.ticks = 2]
\* Each message is delivered once, and the notification is updated.
Agreeing == [Quiet EXCEPT !.posts = 1, !.collectors = {c1}, !.deliveries = 1,
                          !.ticks = 2]
\* A notification that changes more than once, and its message; messages that
\* are delivered again after a crash, with no phone; and two messages, one of
\* them about a notification that is sent again while it is fresh.
Changing == [Agreeing EXCEPT !.captures = 3, !.says = {low, high}, !.ticks = 0]
Posting == [Reaching EXCEPT !.captures = 0, !.posts = 2, !.collectors = {c1},
                            !.says = {low, high}, !.deliveries = 3, !.crashes = 1,
                            !.ticks = 1]
Lasting == [Agreeing EXCEPT !.captures = 1, !.posts = 2, !.deliveries = 2, !.fresh = 1,
                            !.says = {low, high}, !.overlap = TRUE, !.ticks = 1]
Safe == {Retrying, Updating, Repeating, Reaching, Agreeing, Changing, Posting, Lasting,
  [Agreeing EXCEPT !.policy = "REQUIRE_MATCHING_SOURCES", !.says = {low, odd, cut}],
  [Agreeing EXCEPT !.policy = "REQUIRE_PRIMARY_SOURCE", !.captures = 1, !.overlap = TRUE,
                   !.refuse = TRUE]}
=============================================================================
