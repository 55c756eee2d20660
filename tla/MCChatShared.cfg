SPECIFICATION SafetySpec
CONSTANTS
    group = group
    solo = solo
    secret = secret
    m1 = m1
    m2 = m2
    done = done
    ping = ping
    plain = plain
    None = None
    Rooms = {group, solo}
    Members = {m1, m2}
    MembersOf <- MCMembersOf
    Incognito = {}
    Texts = {ping}
    MentionsOf <- MCMentionsOf
    MentionsUser = {}
    FollowUpLimit = 0
    MaxUserMessages = 2
    MaxStrays = 1
    MaxInbox = 1
CHECK_DEADLOCK FALSE
INVARIANTS
    ContextHasOwnAnswers
    ContributionsIndependent
    AnswersCorrelated
    PendingExact
