-------------------------- MODULE MCLinkHandshake ---------------------------
EXTENDS LinkHandshake

CONSTANTS host, join

MCAnswers == {"digest", "digest_ack", "heartbeat", "heartbeat_ack"}
=============================================================================
