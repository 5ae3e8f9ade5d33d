------------------------- MODULE MCTelegramBridge -------------------------
\* The Telegram bridge for TLC: conversations in which each kind of message
\* meets one it interferes with.
EXTENDS TelegramBridge

MCScripts ==
    {<<"text", "text">>, <<"login", "text">>, <<"use", "mute">>, <<"start", "stop">>}
    \cup {<<k>> : k \in {"pair", "watch", "new", "say", "query"}}
=============================================================================
