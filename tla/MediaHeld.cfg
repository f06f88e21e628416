SPECIFICATION Spec
CONSTANTS
  photo = photo
  post = post
  reply = reply
  dm = dm
  forward = forward
  group = group
  chat = chat
  other = other
  Files = {photo}
  Posts = {post, reply}
  Messages = {dm, forward}
  Guessed = {group}
  Conversations = {chat, other}
  Nowhere = Nowhere
  ConversationOf <- Chats
  Folder <- ChatFolder
  Nobody = Nobody
  Uses <- OneFile
  Starts <- SomeStarts
  Workers = {w1, w2}
  MaxFaults = 1
  MaxSweeps = 1
  MaxChanges = 1
SYMMETRY AnyWorker
PROPERTIES HeldStays
CHECK_DEADLOCK FALSE
