-------------------------- MODULE MCConversations --------------------------
\* Instance of Conversations: two servers and two clients, two rounds.
EXTENDS Conversations
=============================================================================
