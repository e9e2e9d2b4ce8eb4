--------------------------- MODULE MCConversation ---------------------------
EXTENDS Conversation, TLC

Symmetric == Permutations(Messages)

=============================================================================
