--------------------------- MODULE MCConfigDialog ---------------------------
EXTENDS ConfigDialog, TLC

CONSTANTS d1, d2, trap, log, poster, banner

(* One role lets the bot post everywhere, the other lets it ban. *)
MCGrants ==
    [r \in Role |->
        IF r = poster THEN {<<trap, "post">>, <<log, "post">>}
        ELSE {<<trap, "ban">>, <<log, "ban">>}]

MCSubmission ==
    {[honeypot |-> trap, log |-> log, bans |-> TRUE, may |-> TRUE],
     [honeypot |-> trap, log |-> Nil, bans |-> FALSE, may |-> FALSE]}

MCAnySubmission ==
    MCSubmission \union {[honeypot |-> trap, log |-> Nil, bans |-> TRUE, may |-> FALSE]}


=============================================================================
