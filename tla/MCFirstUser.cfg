SPECIFICATION AccountSpec
CONSTANTS
    Emails = {ann, bob}
    Admins = {}
    Members = {}
    Clients = {client1}
    MaxTokens = 2
INVARIANT FirstUserBecomesAdmin
CHECK_DEADLOCK FALSE
