SPECIFICATION Spec
CONSTANTS
    group = group
    solo = solo
    secret = secret
    m1 = m1
    m2 = m2
    done = done
    ping = ping
    plain = plain
    None = None
    Rooms = {group, secret}
    Members = {m1, m2}
    MembersOf <- MCMembersOf
    Incognito = {secret}
    Texts = {ping}
    MentionsOf <- MCMentionsOf
    MentionsUser = {}
    FollowUpLimit = 1
    MaxUserMessages = 2
    MaxStrays = 0
    MaxInbox = 1
CHECK_DEADLOCK FALSE
INVARIANTS
    IncognitoKept
PROPERTIES
    RoundsEnd
